---- MODULE Spec2Model ----
(***************************************************************************)
(* Model of the run and debug orchestration of the KAT C# Test Explorer    *)
(* extension: the run handler (testing/runHandler.ts), the debug handler   *)
(* (testing/debugHandler.ts), the result correlator                        *)
(* (results/resultMapper.ts) and the parts of the test tree they read.     *)
(***************************************************************************)
EXTENDS Integers, Sequences, FiniteSets, TLC

(***************************************************************************)
(* Bounds of the model.                                                    *)
(***************************************************************************)
\* longest explicit request.include list that is explored
MaxInclude == 1
\* longest result log (number of UnitTestResult entries) a runner writes
MaxResults == 1
\* longest result log explored for the correlator on its own
MaxApplyResults == 3
\* the number of characters a stream of a spawned process carries
MaxOutput == 3
\* longest qualified name handed to the filter builder on its own
MaxNameLen == 3
\* longest duration attribute handed to the parser on its own
MaxDurationLen == 7
\* longest results section handed to the parser on its own
MaxEntries == 2

(***************************************************************************)
(* The test tree, as buildTestTree lays it out:                            *)
(*   Project -> Namespace -> Class -> Method -> Case                       *)
(* P1 holds a fact M1 and a theory T1 with the cases K1 and K2; P2 holds   *)
(* the facts M2 and M3.                                                    *)
(***************************************************************************)
Items == {"P1", "N1", "C1", "M1", "T1", "K1", "K2", "P2", "N2", "C2", "M2", "M3"}

\* controller.items, in insertion order
RootItems == <<"P1", "P2">>

\* item.children, in order
Children(i) ==
    CASE i = "P1" -> <<"N1">>
      [] i = "N1" -> <<"C1">>
      [] i = "C1" -> <<"M1", "T1">>
      [] i = "T1" -> <<"K1", "K2">>
      [] i = "P2" -> <<"N2">>
      [] i = "N2" -> <<"C2">>
      [] i = "C2" -> <<"M2", "M3">>
      [] OTHER    -> <<>>

\* what buildTestTree made of the node
NodeKind(i) ==
    CASE i \in {"P1", "P2"}       -> "project"
      [] i \in {"N1", "N2"}       -> "namespace"
      [] i \in {"C1", "C2"}       -> "class"
      [] i \in {"M1", "T1", "M2", "M3"} -> "method"
      [] OTHER                    -> "case"

\* getTestMetadata(item) !== undefined: buildTestTree stores metadata for
\* methods and cases only
HasMetadata(i) == NodeKind(i) \in {"method", "case"}

\* metadata.kind
MetaKind(i) == NodeKind(i)

\* number of '|'-separated parts of item.id:
\*   project   <projectPath>
\*   namespace <projectPath>|ns|<name>
\*   class     <projectPath>|<namespace.class>
\*   method    <projectPath>|<fqn>
\*   case      <projectPath>|<fqn>|case|<hash>
IdParts(i) ==
    CASE NodeKind(i) = "project"   -> 1
      [] NodeKind(i) = "namespace" -> 3
      [] NodeKind(i) = "case"      -> 4
      [] OTHER                     -> 2

\* getProjectPath(item.id): buildTestTree calls setProjectPath for every node
getProjectPath(i) == IF i \in {"P1", "N1", "C1", "M1", "T1", "K1", "K2"} THEN "P1" ELSE "P2"

\* The discovery result the tree was built from. Item ids start with the
\* project path, qualified names do not: the names of the two projects are
\* "distinct", or the class of P2 is a copy of the class of P1 and its second
\* fact is "shared", carrying the qualified name of M1.
VARIABLE discovery

\* metadata.fullyQualifiedName (a case carries the name of its method)
Fqn(i) ==
    CASE i = "M1"               -> "N1.C1.M1"
      [] i \in {"T1", "K1", "K2"} -> "N1.C1.T1"
      [] i = "M2"               -> "N2.C2.M2"
      [] i = "M3"               -> IF discovery = "shared" THEN "N1.C1.M1" ELSE "N2.C2.M3"
      [] OTHER                  -> ""

\* the marker the xUnit v2 adapter puts where it cut a display name
TruncMark == "~"

\* metadata.displayName of a case, as a sequence of name fragments
DisplayName(i) ==
    CASE i = "K1" -> <<"a", "b">>
      [] i = "K2" -> <<"a", "c">>
      [] OTHER    -> <<>>

\* isLeafRunnableItem
isLeafRunnableItem(i) ==
    IF ~HasMetadata(i) THEN FALSE
    ELSE IF MetaKind(i) = "case" THEN TRUE
    ELSE IF MetaKind(i) = "method" THEN Len(Children(i)) = 0
    ELSE FALSE

\* the elements of a sequence
Range(s) == {s[k] : k \in 1..Len(s)}

\* F of the value of v: a local constant, computed once
With(v, F(_)) == CHOOSE r \in {F(x) : x \in {v}} : TRUE

RECURSIVE FlatMap(_, _)
\* concatenation of Op(s[1]), Op(s[2]), ...
FlatMap(Op(_), s) == IF s = <<>> THEN <<>> ELSE Op(Head(s)) \o FlatMap(Op, Tail(s))

\* a sequence reversed
Reverse(s) == [k \in 1..Len(s) |-> s[Len(s) + 1 - k]]

RECURSIVE collectTests(_)
\* collectTests: the item, then its descendants, depth first
collectTests(i) == <<i>> \o FlatMap(collectTests, Children(i))

\* getAllTests(controller)
getAllTests == FlatMap(collectTests, RootItems)

\* the items at or below an item
Subtree(i) == Range(collectTests(i))

(***************************************************************************)
(* Result correlator (results/resultMapper.ts).                            *)
(* A parsed result (TrxTestResult) is a record                             *)
(*   [fqn, dn, outcome, duration]                                          *)
(* with dn the display name as a sequence of name fragments; a run-state   *)
(* call on the TestRun is a record [op, item, msg].                        *)
(***************************************************************************)
\* undefined
None == "none"

Outcomes == {"Passed", "Failed", "NotExecuted", "Skipped"}

\* one call run.<op>(item, message)
Call(op, i, m) == [op |-> op, item |-> i, msg |-> m]

\* p is a prefix of s
IsPrefix(p, s) == Len(p) <= Len(s) /\ SubSeq(s, 1, Len(p)) = p

\* the last element of a sequence that satisfies Test, or None
LastWhere(s, Test(_)) ==
    With({k \in 1..Len(s) : Test(s[k])},
         LAMBDA hits : IF hits = {} THEN None ELSE s[CHOOSE k \in hits : \A j \in hits : j <= k])

\* addTestItemToMaps: the items that go into the case map (the others that
\* carry a qualified name go into the method map), in the order
\* buildTestItemMaps visits them
CaseMapped(i) == HasMetadata(i) /\ Fqn(i) # "" /\ MetaKind(i) = "case" /\ DisplayName(i) # <<>>

MethodMapped(i) == HasMetadata(i) /\ Fqn(i) # "" /\ ~CaseMapped(i)

\* methodItemsByFqn.get(fqn): Map.set keeps the item set last
methodMapGet(fqn) ==
    LET Hit(i) == MethodMapped(i) /\ Fqn(i) = fqn
    IN  LastWhere(getAllTests, Hit)

\* caseItemsByFqnAndDisplayName.get(buildCaseLookupKey(fqn, dn))
caseMapGet(fqn, dn) ==
    LET Hit(i) == CaseMapped(i) /\ Fqn(i) = fqn /\ DisplayName(i) = dn
    IN  LastWhere(getAllTests, Hit)

\* the entries of the case map in iteration order: a key keeps the place of
\* its first insertion and holds the item set last
caseMapEntries ==
    LET all   == SelectSeq(getAllTests, CaseMapped)
        First(k) == \A j \in 1..(k - 1) :
                       ~(Fqn(all[j]) = Fqn(all[k]) /\ DisplayName(all[j]) = DisplayName(all[k]))
        idx   == {k \in 1..Len(all) : First(k)}
        RECURSIVE Pick(_)
        Pick(k) == IF k > Len(all) THEN <<>>
                   ELSE IF k \in idx
                        THEN <<[fqn |-> Fqn(all[k]), dn |-> DisplayName(all[k]),
                                item |-> caseMapGet(Fqn(all[k]), DisplayName(all[k]))]>> \o Pick(k + 1)
                        ELSE Pick(k + 1)
    IN  Pick(1)

\* a fallback that takes the first case of the qualified name, whatever its
\* display name
findCaseItemByTruncatedDisplayName_FirstCase(fqn, dn) ==
    LET Taken(entries) ==
            LET hits == {k \in 1..Len(entries) : entries[k].fqn = fqn}
            IN  IF hits = {} THEN None
                ELSE entries[CHOOSE k \in hits : \A j \in hits : k <= j].item
    IN  IF ~(\E k \in 1..Len(dn) : dn[k] = TruncMark) THEN None
        ELSE With(caseMapEntries, Taken)

\* findCaseItemByTruncatedDisplayName: only for a display name that holds the
\* truncation marker; the name is cut at the first marker and the first case
\* whose key starts with <fqn>||<prefix> is taken
findCaseItemByTruncatedDisplayName(fqn, dn) ==
    LET marks == {k \in 1..Len(dn) : dn[k] = TruncMark}
    IN  IF marks = {} THEN None
        ELSE LET first  == CHOOSE k \in marks : \A j \in marks : k <= j
                 prefix == SubSeq(dn, 1, first - 1)
                 Taken(entries) ==
                     LET hits == {k \in 1..Len(entries) :
                                     /\ entries[k].fqn = fqn
                                     /\ IsPrefix(prefix, entries[k].dn)}
                     IN  IF hits = {} THEN None
                         ELSE entries[CHOOSE k \in hits : \A j \in hits : k <= j].item
             IN  With(caseMapEntries, Taken)

\* a lookup that asks the method map first: method ?? case key ?? truncated case
findTestItem_MethodFirst(r) ==
    LET Cut(byCase)   == IF byCase # None THEN byCase
                         ELSE findCaseItemByTruncatedDisplayName(r.fqn, r.dn)
        Case(byMethod) == IF byMethod # None THEN byMethod
                          ELSE With(caseMapGet(r.fqn, r.dn), Cut)
    IN  With(methodMapGet(r.fqn), Case)

\* the lookup of applyTestResults: case key ?? truncated case ?? method
findTestItem(r) ==
    LET Method(byCut)  == IF byCut # None THEN byCut ELSE methodMapGet(r.fqn)
        Cut(byCase)    == IF byCase # None THEN byCase
                          ELSE With(findCaseItemByTruncatedDisplayName(r.fqn, r.dn), Method)
    IN  With(caseMapGet(r.fqn, r.dn), Cut)

\* the run state an outcome is applied as
OutcomeOp(outcome) ==
    CASE outcome = "Passed" -> "passed"
      [] outcome = "Failed" -> "failed"
      [] OTHER              -> "skipped"

\* the condition under which collectRunnableItems collects an item
Collectable(i) ==
    /\ HasMetadata(i)
    /\ MetaKind(i) \in {"method", "case"}
    /\ ~(MetaKind(i) = "method" /\ Len(Children(i)) > 0)
    /\ isLeafRunnableItem(i)

RECURSIVE collectRunnableVisit(_)
\* the order in which the stack of collectRunnableItems pops the items: an
\* item, then its children from the last to the first
collectRunnableVisit(i) == <<i>> \o FlatMap(collectRunnableVisit, Reverse(Children(i)))

\* collectRunnableItems(root, collected), as the items it sets
collectRunnableItems(root) == SelectSeq(collectRunnableVisit(root), Collectable)

\* a sequence without its repeated elements, each kept at its first place (a
\* Map keyed by id)
Dedupe(s) ==
    LET First(t)   == {k \in 1..Len(t) : \A j \in 1..(k - 1) : t[j] # t[k]}
        Kept(t, first) == [n \in 1..Cardinality(first) |->
                             t[CHOOSE k \in first : Cardinality({j \in first : j < k}) = n - 1]]
        Of(t)      == With(First(t), LAMBDA first : Kept(t, first))
    IN  With(s, Of)

\* expectedRunnableItems kept as a list instead of a Map keyed by id: an item
\* below two expected items is listed twice
expectedRunnableItems_List(expectedItems) == FlatMap(collectRunnableItems, expectedItems)

\* expectedRunnableItems of markMissingExpectedResultsAsSkipped
expectedRunnableItems(expectedItems) == Dedupe(FlatMap(collectRunnableItems, expectedItems))

\* markMissingExpectedResultsAsSkipped: the items it marks skipped, in order;
\* hasExpected is FALSE when the caller passes no expectedItems
markMissingExpectedResultsAsSkipped(hasExpected, expectedItems, itemStates) ==
    IF ~hasExpected \/ expectedItems = <<>> THEN <<>>
    ELSE LET Select(states) == SelectSeq(expectedRunnableItems(expectedItems),
                                           LAMBDA i : states[i] = None)
         IN  With(itemStates, Select)

\* the state of applyTestResults before the first result; targets lists, for
\* each result handled so far, the item it was looked up as (None for a miss)
ApplyStart ==
    [calls      |-> <<>>,
     itemStates |-> [i \in Items |-> None],
     targets    |-> <<>>,
     warnings   |-> 0,
     matched    |-> 0,
     passed     |-> 0,
     failed     |-> 0,
     skipped    |-> 0,
     total      |-> 0,
     executionTimeMs |-> 0]

\* a turn that leaves an item that already has a state as it is
ApplyOne_FirstWins(acc, r) ==
    LET op == OutcomeOp(r.outcome)
        Apply(testItem) ==
            IF testItem = None
            THEN [acc EXCEPT !.warnings = @ + 1, !.targets = Append(@, None)]
            ELSE [acc EXCEPT
                    !.calls      = IF acc.itemStates[testItem] = None
                                   THEN Append(@, Call(op, testItem, "")) ELSE @,
                    !.targets    = Append(@, testItem),
                    !.itemStates = [@ EXCEPT ![testItem] = IF @ = None THEN op ELSE @],
                    !.matched    = @ + 1,
                    !.passed     = IF op = "passed" THEN @ + 1 ELSE @,
                    !.failed     = IF op = "failed" THEN @ + 1 ELSE @,
                    !.skipped    = IF op = "skipped" THEN @ + 1 ELSE @,
                    !.executionTimeMs = IF r.duration > 0 THEN @ + r.duration ELSE @,
                    !.total      = @ + 1]
    IN  With(findTestItem(r), Apply)

\* a turn that counts a result without an item as skipped
ApplyOne_CountMiss(acc, r) ==
    LET op == OutcomeOp(r.outcome)
        Apply(testItem) ==
            IF testItem = None
            THEN [acc EXCEPT !.warnings = @ + 1, !.targets = Append(@, None),
                             !.skipped = @ + 1, !.total = @ + 1]
            ELSE [acc EXCEPT
                    !.calls      = Append(@, Call(op, testItem, "")),
                    !.targets    = Append(@, testItem),
                    !.itemStates = [@ EXCEPT ![testItem] = op],
                    !.matched    = @ + 1,
                    !.passed     = IF op = "passed" THEN @ + 1 ELSE @,
                    !.failed     = IF op = "failed" THEN @ + 1 ELSE @,
                    !.skipped    = IF op = "skipped" THEN @ + 1 ELSE @,
                    !.executionTimeMs = IF r.duration > 0 THEN @ + r.duration ELSE @,
                    !.total      = @ + 1]
    IN  With(findTestItem(r), Apply)

\* a turn that adds every duration to the execution time
ApplyOne_AnyDuration(acc, r) ==
    LET op == OutcomeOp(r.outcome)
        Apply(testItem) ==
            IF testItem = None
            THEN [acc EXCEPT !.warnings = @ + 1, !.targets = Append(@, None)]
            ELSE [acc EXCEPT
                    !.calls      = Append(@, Call(op, testItem, "")),
                    !.targets    = Append(@, testItem),
                    !.itemStates = [@ EXCEPT ![testItem] = op],
                    !.matched    = @ + 1,
                    !.passed     = IF op = "passed" THEN @ + 1 ELSE @,
                    !.failed     = IF op = "failed" THEN @ + 1 ELSE @,
                    !.skipped    = IF op = "skipped" THEN @ + 1 ELSE @,
                    !.executionTimeMs = @ + r.duration,
                    !.total      = @ + 1]
    IN  With(findTestItem(r), Apply)

\* one turn of the loop over the results
ApplyOne(acc, r) ==
    LET op == OutcomeOp(r.outcome)
        Apply(testItem) ==
            IF testItem = None
            THEN [acc EXCEPT !.warnings = @ + 1, !.targets = Append(@, None)]
            ELSE [acc EXCEPT
                    !.calls      = Append(@, Call(op, testItem, "")),
                    !.targets    = Append(@, testItem),
                    !.itemStates = [@ EXCEPT ![testItem] = op],
                    !.matched    = @ + 1,
                    !.passed     = IF op = "passed" THEN @ + 1 ELSE @,
                    !.failed     = IF op = "failed" THEN @ + 1 ELSE @,
                    !.skipped    = IF op = "skipped" THEN @ + 1 ELSE @,
                    !.executionTimeMs = IF r.duration > 0 THEN @ + r.duration ELSE @,
                    !.total      = @ + 1]
    IN  With(findTestItem(r), Apply)

RECURSIVE ApplyLoop(_, _)
\* the loop over the results, in document order
ApplyLoop(acc, results) ==
    IF results = <<>> THEN acc ELSE ApplyLoop(ApplyOne(acc, Head(results)), Tail(results))

\* applyTestResults(controller, results, run, outputChannel, expectedItems):
\* the calls it makes on the run, the warnings it logs and its summary
applyTestResults(results, hasExpected, expectedItems) ==
    LET SkipCall(i) == <<Call("skipped", i, "")>>
        Fill(acc, missing) ==
            [acc EXCEPT
                !.calls      = @ \o FlatMap(SkipCall, missing),
                !.itemStates = [i \in Items |-> IF i \in Range(missing) THEN "skipped" ELSE @[i]],
                !.skipped    = @ + Len(missing),
                !.total      = @ + Len(missing)]
        Finish(acc) ==
            With(markMissingExpectedResultsAsSkipped(hasExpected, expectedItems, acc.itemStates),
                 LAMBDA missing : Fill(acc, missing))
    IN  With(ApplyLoop(ApplyStart, results), Finish)

(***************************************************************************)
(* The request, the grouping and the helpers of the run handler            *)
(* (testing/runHandler.ts) and of filterBuilder.ts.                        *)
(***************************************************************************)
Projects == {"P1", "P2"}

\* the items in the order getAllTests lists them
TreeIndex(i) == CHOOSE k \in 1..Len(getAllTests) : getAllTests[k] = i

\* the explicit request.include lists that are explored: up to MaxInclude
\* distinct items, in tree order
Requests ==
    {s \in UNION {[1..n -> Items] : n \in 1..MaxInclude} :
        \A j, k \in 1..Len(s) : j < k => TreeIndex(s[j]) < TreeIndex(s[k])}

\* groupTestsByProject: one entry per project, in the order of the first item
\* of each project; every item has a project path
groupTestsByProject(tests) ==
    LET Proj(i) == <<getProjectPath(i)>>
        Entries(projects) ==
            [g \in 1..Len(projects) |->
                [projectPath |-> projects[g],
                 tests |-> SelectSeq(tests, LAMBDA i : getProjectPath(i) = projects[g])]]
    IN  With(Dedupe(FlatMap(Proj, tests)), Entries)

\* shouldRunAll(item): no metadata and no '|' in the id
shouldRunAll(i) == ~HasMetadata(i) /\ IdParts(i) = 1

\* runningAll / debuggingAll of a group
RunningAll(tests) == Len(tests) = 1 /\ shouldRunAll(tests[1])

\* the clauses of buildVSTestFilter(tests): an item without metadata gives a
\* contains clause when its id has exactly two parts and none otherwise, an
\* item with metadata gives an exact clause
FilterClause(i) ==
    IF ~HasMetadata(i)
    THEN IF IdParts(i) = 2 THEN <<[op |-> "~", item |-> i]>> ELSE <<>>
    ELSE <<[op |-> "=", item |-> i]>>

buildVSTestFilter(tests) == FlatMap(FilterClause, tests)

RECURSIVE markProjectTests(_, _)
\* markProjectTests(run, projectItem, state): the calls it makes, the item
\* first and then its children
markProjectTests(i, st) ==
    LET Child(c) == markProjectTests(c, st)
        own == IF st = "passed" THEN <<Call("passed", i, "")>>
               ELSE IF isLeafRunnableItem(i)
                    THEN <<Call(st, i, IF st = "errored" THEN "Test execution failed" ELSE "")>>
                    ELSE <<>>
    IN  own \o FlatMap(Child, Children(i))

RECURSIVE enqueueSelectedLeafRunnableItems(_)
\* enqueueSelectedLeafRunnableItems(run, test): the calls it makes
enqueueSelectedLeafRunnableItems(i) ==
    IF isLeafRunnableItem(i) THEN <<Call("enqueued", i, "")>>
    ELSE FlatMap(enqueueSelectedLeafRunnableItems, Children(i))

\* "for (const test of tests) run.errored(test, new TestMessage(m))"
ErrorEach(tests, m) == [k \in 1..Len(tests) |-> Call("errored", tests[k], m)]

\* "for (const test of tests) run.<op>(test)"
MarkEach(tests, op) == [k \in 1..Len(tests) |-> Call(op, tests[k], "")]

\* the run states of the items after a sequence of calls on the run
StateAfter(st, calls) ==
    [i \in Items |->
        LET on == {k \in 1..Len(calls) : calls[k].item = i}
        IN  IF on = {} THEN st[i] ELSE calls[CHOOSE k \in on : \A j \in on : j <= k].op]

\* the messages of the items after a sequence of calls on the run
MsgAfter(ms, calls) ==
    [i \in Items |->
        LET on == {k \in 1..Len(calls) : calls[k].item = i}
        IN  IF on = {} THEN ms[i] ELSE calls[CHOOSE k \in on : \A j \in on : j <= k].msg]

\* the items a sequence of calls puts in the state op
ItemsCalled(calls, op) == {calls[k].item : k \in {j \in 1..Len(calls) : calls[j].op = op}}

(***************************************************************************)
(* What a runner process can write as its result log: up to MaxResults     *)
(* entries for tests of its own project, or a file that cannot be read.    *)
(***************************************************************************)
Result(f, d, o, t) == [fqn |-> f, dn |-> d, outcome |-> o, duration |-> t]

\* the entries a runner of the project can report
ReportEntries(project) ==
    IF project = "P1"
    THEN {Result("N1.C1.M1", <<"M1">>, "Passed", 5),
          Result("N1.C1.T1", <<"a", "b">>, "Failed", 0),
          Result("N1.C1.Gone", <<"Gone">>, "NotExecuted", 0)}
    ELSE {Result("N2.C2.M2", <<"M2">>, "Passed", 3)}

\* the result logs of up to n entries
Docs(project, n) == UNION {[1..k -> ReportEntries(project)] : k \in 0..n}

\* what a runner can leave in the result log of its group: a log of up to
\* n entries, or a file that parseTrxFile cannot read
LogContents(project, n) ==
    [ok : {TRUE}, results : Docs(project, n)] \cup [ok : {FALSE}, results : {<<>>}]

\* the message of the error parseTrxFile throws
ParserMessage == "parser message"

\* a result log in the results directory: the LogFilePrefix its runner was
\* given (a base and, for the run handler, the project index; 0 for none) and
\* its content
TrxFile(base, index, by, content) == [base |-> base, index |-> index, by |-> by, content |-> content]

RECURSIVE DecimalStartsWith(_, _)
\* the decimal digits of j start with the decimal digits of k
DecimalStartsWith(j, k) == j = k \/ (j >= 10 /\ DecimalStartsWith(j \div 10, k))

\* file.startsWith(logFilePrefix) for the file names "<base>-<index>_..." of
\* the run handler and "<base>_..." of the debug handler
NameStartsWith(f, base, index) ==
    /\ f.base = base
    /\ IF index = 0 THEN f.index = 0 ELSE DecimalStartsWith(f.index, index)

\* findTrxFile(resultsDirectory, logFilePrefix): the first file of the
\* directory whose name starts with the prefix; 0 stands for undefined, k for
\* the k-th file
findTrxFile(exists, dir, base, index) ==
    LET hits == {k \in 1..Len(dir) : NameStartsWith(dir[k], base, index)}
    IN  IF ~exists \/ hits = {} THEN 0
        ELSE CHOOSE k \in hits : \A j \in hits : k <= j

(***************************************************************************)
(* State of one handler invocation.                                        *)
(***************************************************************************)
VARIABLES
    mode,          \* "run" or "debug": the profile whose handler was invoked
    testsToRun,    \* request.include ?? getAllTests(controller)
    testsByProject,\* groupTestsByProject(testsToRun), as the handler keeps it
    pc,            \* the await (or continuation) the handler is at
    gi,            \* number of groups the loop has taken up (projectIndex)
    cancelled,     \* token.isCancellationRequested
    dirCreated,    \* the temp results directory was created
    dirExists,     \* the temp results directory exists
    ended,         \* number of calls of run.end()
    state,         \* the run state last set for each item
    msg,           \* the message of the last errored call for each item
    enqueuedEver,  \* the items run.enqueued was called for
    startedEver,   \* the items run.started was called for
    procs,         \* the child processes spawned, in order
    files,         \* the result logs in the results directory, in name order
    trxFile,       \* the result log found for the current group (0: none)
    isXunitV3,     \* debug: the strategy chosen for the current group
    sessions,      \* debug: the debug sessions started, in order
    killOnCancel,  \* debug: processes the cancellation listeners kill
    stopOnCancel,  \* debug: session waits the cancellation listeners end
    shortcut,      \* listeners registered on an already cancelled token
    lastApply,     \* the last call of applyTestResults and what it returned
    summaries,     \* projectSummaries
    combined,      \* the combined summaries appended
    log,           \* the lines written to the output channel, per group
    cancelAt       \* where the handler was when cancellation was requested

(***************************************************************************)
(* State of one call of spawnProcess (dotnetTestRunner.ts).                *)
(***************************************************************************)
VARIABLES
    platform,      \* process.platform
    tree,          \* the status of childProcess (a shell) and of what it started
    code,          \* the exit code the 'close' event carries (<<>>: null)
    cancellationListener, \* "registered" or "disposed"
    requested,     \* cancellation was requested on options.token
    output,          \* stdout and stderr: all the output received
    buffer,        \* stdoutBuffer and stderrBuffer
    lines,         \* the lines handed to onStdout and onStderr, in order
    events,        \* the events of childProcess that were emitted
    promise        \* the promise spawnProcess returned

(***************************************************************************)
(* State outside the handler and the process adapter.                      *)
(***************************************************************************)
VARIABLES
    dap,           \* the last setExceptionBreakpoints request a debug adapter received
    lastCall       \* the last call of a function of the parser or the filter builder

VARIABLES
    registration,  \* the worker process: MSBuild registration and the workspaces of its loaders
    client         \* the WorkerClient of the extension and the worker process it talks to

\* request.exclude ?? [] of the invocation (testsToExclude of the run handler)
VARIABLE testsToExclude

\* what an invocation is given: the tree and the excluded items of the request
inputVars == <<discovery, testsToExclude>>

workerVars == <<registration, client, inputVars>>

\* the state of the handler invocation
handlerVars == <<mode, testsToRun, testsByProject, pc, gi, cancelled, dirCreated, dirExists,
                 ended, state, msg, enqueuedEver, startedEver, procs, files, trxFile,
                 isXunitV3, sessions, killOnCancel, stopOnCancel, shortcut,
                 lastApply, summaries, combined, log, cancelAt>>

\* the state of one call of spawnProcess
spawnVars == <<platform, tree, code, cancellationListener, requested, output, buffer,
               lines, events, promise>>

\* the state outside the handler invocation
adapterVars == <<spawnVars, dap, lastCall, workerVars>>

vars == <<handlerVars, adapterVars>>

\* childProcess is the shell ("shell: true"); the command runs below it
Pids == {"child", "descendant"}

\* the two output streams of childProcess
Streams == {"stdout", "stderr"}

\* no call of spawnProcess is under way
SpawnIdle ==
    /\ platform = "win32"
    /\ tree = [p \in Pids |-> "none"]
    /\ code = <<>>
    /\ cancellationListener = "disposed"
    /\ requested = FALSE
    /\ output = [s \in Streams |-> <<>>]
    /\ buffer = [s \in Streams |-> <<>>]
    /\ lines = [s \in Streams |-> <<>>]
    /\ events = {}
    /\ promise = <<>>

\* the tree of the distinct names and a request that excludes nothing
PlainInputs == discovery = "distinct" /\ testsToExclude = <<>>

\* no worker process and no client
WorkerIdle == registration = <<>> /\ client = <<>> /\ PlainInputs

\* nothing outside the handler invocation is under way
AdaptersIdle == SpawnIdle /\ dap = <<>> /\ lastCall = <<>> /\ WorkerIdle

\* the groups of the request
Groups == testsByProject

\* the group the loop is at
Group == Groups[gi]

TerminalStates == {"passed", "failed", "skipped", "errored"}

\* a child process that was just spawned; code is the exit code of a build
\* that closed with a code other than 0, exe whether an .exe was found next to
\* the target path that msbuild printed
Proc(kind, g) == [kind |-> kind, group |-> g, status |-> "running", code |-> 0, exe |-> FALSE,
                  killed |-> FALSE, afterCancel |-> cancelled,
                  filter |-> <<>>, filterArg |-> FALSE]

\* the process runDotnetTest spawns for the run handler: options.filter is
\* absent when running all and buildVSTestFilter(tests) otherwise, and
\* "--filter" is passed "if (options.filter)"
TestProc(g, tests) ==
    IF RunningAll(tests) THEN Proc("test", g)
    ELSE With(buildVSTestFilter(tests),
              LAMBDA f : [Proc("test", g) EXCEPT !.filter = f, !.filterArg = (f # <<>>)])

\* the process waitForTesthostPid spawns: "--filter" and the filter are
\* passed unless debugging all
RunnerProc(g, tests) ==
    IF RunningAll(tests) THEN Proc("runner", g)
    ELSE [Proc("runner", g) EXCEPT !.filter = buildVSTestFilter(tests), !.filterArg = TRUE]

\* the arguments waitForXunitV3Ready passes for a test: -method for an item
\* with metadata, -class for an item without whose id has two parts
XunitV3Arg(i) ==
    IF HasMetadata(i) THEN <<[op |-> "-method", item |-> i]>>
    ELSE IF IdParts(i) = 2 THEN <<[op |-> "-class", item |-> i]>> ELSE <<>>

\* the process waitForXunitV3Ready spawns, its -method and -class arguments
\* in the place of the filter
ExeProc(g, tests) == [Proc("exe", g) EXCEPT !.filter = FlatMap(XunitV3Arg, tests)]

\* one line of the output channel
Line(g, text) == [group |-> g, text |-> text]

\* the state when a handler is invoked, ss being the debug sessions that are
\* active in the window
Invoked(ss) ==
    /\ mode \in {"run", "debug"}
    /\ testsToRun \in Requests \cup {getAllTests}
    /\ testsByProject = groupTestsByProject(testsToRun)
    /\ pc = "start"
    /\ gi = 0
    /\ cancelled = FALSE
    /\ dirCreated = FALSE
    /\ dirExists = FALSE
    /\ ended = 0
    /\ state = [i \in Items |-> None]
    /\ msg = [i \in Items |-> ""]
    /\ enqueuedEver = {}
    /\ startedEver = {}
    /\ procs = <<>>
    /\ files = <<>>
    /\ trxFile = 0
    /\ isXunitV3 = FALSE
    /\ sessions = ss
    /\ killOnCancel = {}
    /\ stopOnCancel = {}
    /\ shortcut = {}
    /\ lastApply = <<>>
    /\ summaries = <<>>
    /\ combined = <<>>
    /\ log = {}
    /\ cancelAt = <<>>

InitSessions(ss) == Invoked(ss) /\ AdaptersIdle

Init == InitSessions(<<>>)

\* the calls on the run take effect
Mark(calls) ==
    \E made \in {calls} :
        /\ state' = StateAfter(state, made)
        /\ msg' = MsgAfter(msg, made)
        /\ enqueuedEver' = enqueuedEver \cup ItemsCalled(made, "enqueued")
        /\ startedEver' = startedEver \cup ItemsCalled(made, "started")

NoMark == UNCHANGED <<state, msg, enqueuedEver, startedEver>>

\* a finally block that leaves the directory in place
rmSync_Forgotten(exists) == exists

\* fs.rmSync(resultsDirectory, {recursive, force}) under existsSync: whether
\* the directory exists afterwards
rmSync(exists) == FALSE

\* a finally block that removes the directory and leaves the run open
Finally_NoEnd ==
    /\ dirExists' = rmSync(dirExists)
    /\ ended' = ended
    /\ pc' = "done"

\* the finally block of both handlers: remove the results directory if it
\* exists, then run.end()
Finally ==
    /\ dirExists' = rmSync(dirExists)
    /\ ended' = ended + 1
    /\ pc' = "done"

(***************************************************************************)
(* The run handler (createRunHandler).  The handler runs without           *)
(* interruption from one await to the next; "loop" is the head of the loop *)
(* over the groups, reached in the same turn as the step before it.        *)
(***************************************************************************)
\* the pcs at which the handler is running, not awaiting
Running == {"loop", "readyOk", "readyFailed", "sessionOver"}

\* the summary part of what applyTestResults returns
SummaryOf(out) ==
    [passed |-> out.passed, failed |-> out.failed, skipped |-> out.skipped,
     total |-> out.total, executionTimeMs |-> out.executionTimeMs]

\* the sum of one field over the project summaries
RECURSIVE SumField(_, _)
SumField(s, f) == IF s = <<>> THEN 0 ELSE Head(s).summary[f] + SumField(Tail(s), f)

\* a combined summary that is the summary of the first project
combinedSummary_First(s) == Head(s).summary

\* the combined summary of the run handler
combinedSummary(s) ==
    [passed |-> SumField(s, "passed"), failed |-> SumField(s, "failed"),
     skipped |-> SumField(s, "skipped"), total |-> SumField(s, "total"),
     executionTimeMs |-> SumField(s, "executionTimeMs")]

\* createTestRun and mkdirSync; a throw of mkdirSync goes to catch and finally
RunStart ==
    /\ mode = "run" /\ pc = "start"
    /\ \/ /\ dirCreated' = TRUE /\ dirExists' = TRUE
          /\ pc' = "loop"
          /\ UNCHANGED <<ended, log>>
       \/ /\ dirCreated' = FALSE
          /\ log' = log \cup {Line(0, "Test run failed")}
          /\ Finally
    /\ NoMark
    /\ UNCHANGED <<adapterVars, mode, testsToRun, testsByProject, gi, cancelled, procs, files, trxFile,
                   isXunitV3,
                   sessions, killOnCancel, stopOnCancel, shortcut, lastApply,
                   summaries, combined, cancelAt>>

\* the calls that mark the tests of a group enqueued
EnqueueCalls(tests) ==
    IF RunningAll(tests) THEN markProjectTests(tests[1], "enqueued")
    ELSE FlatMap(enqueueSelectedLeafRunnableItems, tests)

\* the calls of the run handler when the result log is missing (m: 'TRX file
\* not found') or cannot be parsed (m: the parser's message)
RunErrorCalls(tests, m) ==
    IF RunningAll(tests) THEN markProjectTests(tests[1], "errored")
    ELSE ErrorEach(tests, m)

\* a loop that does not look at the token
LoopDone_Uncancellable(cancelRequested, index, count) == index = count

\* the loop over the groups is left: "if (token.isCancellationRequested)
\* break" at the head of the body, or no group is left
LoopDone(cancelRequested, index, count) == cancelRequested \/ index = count

\* the head of the loop: leave on cancellation or after the last group
\* (combined summary, finally), else enqueue the next group and spawn its
\* test process
RunLoop ==
    /\ mode = "run" /\ pc = "loop"
    /\ IF LoopDone(cancelled, gi, Len(Groups))
       THEN /\ log' = IF cancelled /\ gi < Len(Groups)
                      THEN log \cup {Line(gi, "Test run cancelled")} ELSE log
            /\ combined' = IF Len(summaries) > 1
                           THEN Append(combined, combinedSummary(summaries)) ELSE combined
            /\ Finally
            /\ NoMark
            /\ UNCHANGED <<gi, procs>>
       ELSE /\ gi' = gi + 1
            /\ Mark(EnqueueCalls(Groups[gi + 1].tests))
            /\ procs' = Append(procs, TestProc(gi + 1, Groups[gi + 1].tests))
            /\ pc' = "test"
            /\ UNCHANGED <<log, combined, dirExists, ended>>
    /\ UNCHANGED <<adapterVars, mode, testsToRun, testsByProject, cancelled, dirCreated, files, trxFile,
                   isXunitV3,
                   sessions, killOnCancel, stopOnCancel, shortcut, lastApply,
                   summaries, cancelAt>>

\* the last process spawned
CurProc == Len(procs)

\* the OS cannot start the test process: spawnProcess rejects, runDotnetTest
\* throws, the handler's catch logs and the finally block runs
TestProcError ==
    /\ mode = "run" /\ pc = "test"
    /\ procs' = [procs EXCEPT ![CurProc].status = "failed"]
    /\ log' = log \cup {Line(0, "Test run failed")}
    /\ Finally
    /\ NoMark
    /\ UNCHANGED <<adapterVars, mode, testsToRun, testsByProject, gi, cancelled, dirCreated, files,
                   trxFile, isXunitV3,
                   sessions, killOnCancel, stopOnCancel, shortcut, lastApply,
                   summaries, combined, cancelAt>>

\* the test process closes, having written a result log or not; runDotnetTest
\* looks the log up and the handler either awaits parseTrxFile or marks the
\* group errored and goes on
TestProcClose ==
    /\ mode = "run" /\ pc = "test"
    /\ procs' = [procs EXCEPT ![CurProc].status = "exited"]
    /\ \E wrote \in BOOLEAN, c \in LogContents(Group.projectPath, MaxResults) :
          /\ files' = IF wrote THEN Append(files, TrxFile("test-run", gi, gi, c)) ELSE files
          /\ wrote \/ (c.ok /\ c.results = <<>>)
    /\ trxFile' = findTrxFile(dirExists, files', "test-run", gi)
    /\ IF trxFile' = 0
       THEN /\ log' = log \cup {Line(gi, "Warning: TRX file not found")}
            /\ Mark(RunErrorCalls(Group.tests, "TRX file not found"))
            /\ pc' = "loop"
       ELSE /\ NoMark
            /\ pc' = "parse"
            /\ UNCHANGED log
    /\ UNCHANGED <<adapterVars, mode, testsToRun, testsByProject, gi, cancelled, dirCreated, dirExists,
                   ended, isXunitV3,
                   sessions, killOnCancel, stopOnCancel, shortcut, lastApply,
                   summaries, combined, cancelAt>>

\* one call of applyTestResults, as recorded in lastApply
Applied(results, hasExpected, expected, out) ==
    <<[results |-> results, hasExpected |-> hasExpected, expected |-> expected, out |-> out]>>

\* parseTrxFile settles: the results are applied with the tests of the group as
\* expected items and the summary is kept, or the error is logged and the
\* group marked errored
RunParseDone ==
    /\ mode = "run" /\ pc = "parse"
    /\ \E c \in {files[trxFile].content} :
       \E out \in {applyTestResults(c.results, TRUE, Group.tests)} :
           IF c.ok
           THEN /\ Mark(out.calls)
                /\ lastApply' = Applied(c.results, TRUE, Group.tests, out)
                /\ summaries' = Append(summaries, [project |-> Group.projectPath, summary |-> SummaryOf(out)])
                /\ UNCHANGED log
           ELSE /\ Mark(RunErrorCalls(Group.tests, ParserMessage))
                /\ log' = log \cup {Line(gi, "Error parsing TRX file")}
                /\ UNCHANGED <<lastApply, summaries>>
    /\ pc' = "loop"
    /\ UNCHANGED <<adapterVars, mode, testsToRun, testsByProject, gi, cancelled, dirCreated, dirExists,
                   ended, procs, files,
                   trxFile, isXunitV3, sessions, killOnCancel, stopOnCancel, shortcut,
                   combined, cancelAt>>

(***************************************************************************)
(* The debug handler (createDebugHandler).                                 *)
(***************************************************************************)
\* a kill that is never sent
Kill_Never(ps, targets) == ps

\* child.kill() / killProcessTree(pid) on the processes of a set: a running
\* process is marked killed
Kill(ps, targets) ==
    [k \in 1..Len(ps) |->
        IF k \in targets /\ ps[k].status = "running" THEN [ps[k] EXCEPT !.killed = TRUE] ELSE ps[k]]

\* the process display name the direct-executable strategy attaches by
ExeName(project) == project

\* SESSION_NAME: "KAT C# Test Explorer: Attach (<attachTarget>)", the target
\* being the process name (direct executable) or the pid (hosted runner; the
\* pid of a process is modelled by its place in procs)
SessionName(v3, project, p) == IF v3 THEN <<"name", ExeName(project)>> ELSE <<"pid", p>>

\* the last session started
CurSession == Len(sessions)

\* a listener that stops every active debug session
Stop_All(ss, names) ==
    [k \in 1..Len(ss) |->
        IF ss[k].active THEN [ss[k] EXCEPT !.active = FALSE, !.stopped = TRUE] ELSE ss[k]]

\* vscode.debug.stopDebugging on vscode.debug.sessions.find(s => s.name ===
\* SESSION_NAME) for each of the names: the first active session of the name
Stop(ss, names) ==
    [k \in 1..Len(ss) |->
        IF /\ ss[k].name \in names /\ ss[k].active
           /\ \A j \in 1..(k - 1) : ~(ss[j].active /\ ss[j].name = ss[k].name)
        THEN [ss[k] EXCEPT !.active = FALSE, !.stopped = TRUE] ELSE ss[k]]

\* the C# extension is looked up (without it the handler returns at once),
\* then mkdirSync; a throw goes to catch and finally
DebugStart ==
    /\ mode = "debug" /\ pc = "start"
    /\ \/ /\ dirCreated' = FALSE
          /\ log' = log \cup {Line(0, "C# extension (ms-dotnettools.csharp) is required for debugging.")}
          /\ Finally
       \/ /\ dirCreated' = TRUE /\ dirExists' = TRUE
          /\ pc' = "loop"
          /\ UNCHANGED <<ended, log>>
       \/ /\ dirCreated' = FALSE
          /\ log' = log \cup {Line(0, "Debug handler error")}
          /\ Finally
    /\ NoMark
    /\ UNCHANGED <<adapterVars, mode, testsToRun, testsByProject, gi, cancelled, procs, files, trxFile,
                   isXunitV3,
                   sessions, killOnCancel, stopOnCancel, shortcut, lastApply,
                   summaries, combined, cancelAt>>

\* the head of the loop: leave on cancellation or after the last group, else
\* mark the tests of the next group started and spawn its build
DebugLoop ==
    /\ mode = "debug" /\ pc = "loop"
    /\ IF LoopDone(cancelled, gi, Len(Groups))
       THEN /\ Finally
            /\ NoMark
            /\ UNCHANGED <<gi, procs>>
       ELSE /\ gi' = gi + 1
            /\ Mark(MarkEach(Groups[gi + 1].tests, "started"))
            /\ procs' = Append(procs, Proc("build", gi + 1))
            /\ pc' = "build"
            /\ UNCHANGED <<dirExists, ended>>
    /\ UNCHANGED <<adapterVars, mode, testsToRun, testsByProject, cancelled, dirCreated, files, trxFile,
                   isXunitV3,
                   sessions, killOnCancel, stopOnCancel, shortcut, lastApply,
                   summaries, combined, log, cancelAt>>

\* a build whose result is taken as 0 whatever happened
buildResult_Ignored(outcome) == 0

\* buildResult: the exit code the build closed with ('close'), or 1 when it
\* could not be spawned ('error')
buildResult(outcome) == IF outcome = "ok" THEN 0 ELSE 1

\* the build closes with exit code 0, closes with another code, or cannot be
\* spawned (resolve(1)); on failure the group is marked errored and the loop
\* continues, else getProjectTargetPath spawns msbuild
BuildDone ==
    /\ mode = "debug" /\ pc = "build"
    /\ \E outcome \in {"ok", "failed", "error"} :
          \E closed \in {[procs EXCEPT ![CurProc].status = IF outcome = "error" THEN "failed" ELSE "exited",
                                       ![CurProc].code   = IF outcome = "failed" THEN 1 ELSE 0]} :
             IF buildResult(outcome) = 0
             THEN /\ procs' = Append(closed, Proc("msbuild", gi))
                  /\ pc' = "targetPath"
                  /\ NoMark
                  /\ UNCHANGED log
             ELSE /\ procs' = closed
                  /\ Mark(ErrorEach(Group.tests, "Build failed before debug run"))
                  /\ UNCHANGED log
                  /\ pc' = "loop"
    /\ UNCHANGED <<adapterVars, mode, testsToRun, testsByProject, gi, cancelled, dirCreated, dirExists,
                   ended, files, trxFile,
                   isXunitV3, sessions, killOnCancel, stopOnCancel, shortcut, lastApply,
                   summaries, combined, cancelAt>>

\* a cancellation listener for the readiness wait of process p
ReadyListener(p) == [kind |-> "ready", target |-> p]

\* a cancellation listener for the wait on session k
SessionListener(k) == [kind |-> "session", target |-> k]

\* a choice that never takes the direct-executable strategy
IsXunitV3_Never(known, exists) == FALSE

\* isXunitV3 = !!exePath && fs.existsSync(exePath): known is whether
\* getProjectTargetPath resolved a path, exists what existsSync answers
IsXunitV3(known, exists) == known /\ exists

\* getProjectTargetPath settles and the strategy is chosen: direct executable
\* when an .exe exists next to the target path, else hosted runner.  The
\* runner is spawned (waitForXunitV3Ready / waitForTesthostPid) and its
\* cancellation listener and 30 s timer are set; a listener on an already
\* cancelled token is called from a timer of its own
TargetPathDone ==
    /\ mode = "debug" /\ pc = "targetPath"
    /\ \E known \in BOOLEAN, exe \in BOOLEAN :
          /\ isXunitV3' = IsXunitV3(known, exe)
          /\ procs' = Append([procs EXCEPT ![CurProc].status = "exited", ![CurProc].exe = (known /\ exe)],
                              IF isXunitV3' THEN ExeProc(gi, Group.tests)
                              ELSE RunnerProc(gi, Group.tests))
    /\ IF cancelled
       THEN shortcut' = shortcut \cup {ReadyListener(Len(procs'))} /\ UNCHANGED killOnCancel
       ELSE killOnCancel' = killOnCancel \cup {Len(procs')} /\ UNCHANGED shortcut
    /\ pc' = "ready"
    /\ NoMark
    /\ UNCHANGED <<adapterVars, mode, testsToRun, testsByProject, gi, cancelled, dirCreated, dirExists,
                   ended, files, trxFile,
                   sessions, stopOnCancel, lastApply, summaries, combined, log, cancelAt>>

\* the readiness line is seen ("Waiting for debugger to be attached" /
\* "Process Id: <n>"): the wait resolves and the handler calls startDebugging
ReadySignal ==
    /\ mode = "debug" /\ pc = "ready"
    /\ procs[CurProc].status = "running"
    /\ sessions' = Append(sessions, [name |-> SessionName(isXunitV3, Group.projectPath, CurProc),
                                     group |-> gi, active |-> FALSE, stopped |-> FALSE])
    /\ pc' = "attach"
    /\ NoMark
    /\ UNCHANGED <<adapterVars, mode, testsToRun, testsByProject, gi, cancelled, dirCreated, dirExists,
                   ended, procs, files,
                   trxFile, isXunitV3, killOnCancel, stopOnCancel, shortcut, lastApply,
                   summaries, combined, log, cancelAt>>

\* the processes the debug handler attaches to: "runner" is dotnet test with
\* --logger trx (hosted runner), "exe" the xUnit v3 executable, which is given
\* no result log to write
RunnerKinds == {"runner", "exe"}

\* a runner process closes (a hosted runner may have written its result log),
\* or cannot be spawned at all; if the handler awaits its readiness, the wait
\* resolves as failed
RunnerExit ==
    /\ mode = "debug" /\ pc \notin Running \cup {"done"}
    /\ \E p \in 1..Len(procs) :
          /\ procs[p].kind \in RunnerKinds /\ procs[p].status = "running"
          /\ \E how \in {"close", "error"} :
                /\ how = "error" => (pc = "ready" /\ p = CurProc /\ ~procs[p].killed)
                /\ procs' = [procs EXCEPT ![p].status = IF how = "error" THEN "failed" ELSE "exited"]
                /\ \E wrote \in BOOLEAN, c \in LogContents(Groups[procs[p].group].projectPath, MaxResults) :
                      /\ wrote \/ (c.ok /\ c.results = <<>>)
                      /\ wrote => (how = "close" /\ dirExists /\ procs[p].kind = "runner")
                      /\ files' = IF wrote THEN Append(files, TrxFile("debug-run", 0, procs[p].group, c)) ELSE files
          /\ pc' = IF pc = "ready" /\ p = CurProc THEN "readyFailed" ELSE pc
    /\ NoMark
    /\ UNCHANGED <<adapterVars, mode, testsToRun, testsByProject, gi, cancelled, dirCreated, dirExists,
                   ended, trxFile,
                   isXunitV3, sessions, killOnCancel, stopOnCancel, shortcut, lastApply,
                   summaries, combined, log, cancelAt>>

\* what the timer of a readiness wait writes to the output channel
TimeoutLine(v3) ==
    IF v3 THEN "Timeout waiting for xUnit v3 debugger-ready message"
    ELSE "Timeout waiting for testhost PID"

\* a timer that does not ask whether the wait has resolved: it kills the
\* process and resolves the wait as failed whenever it fires
ReadyTimeout_Unguarded ==
    /\ mode = "debug" /\ pc \in {"ready", "attach", "session"}
    /\ procs' = Kill(procs, {CurProc})
    /\ log' = log \cup {Line(gi, TimeoutLine(isXunitV3))}
    /\ pc' = "readyFailed"
    /\ NoMark
    /\ UNCHANGED <<adapterVars, mode, testsToRun, testsByProject, gi, cancelled, dirCreated, dirExists,
                   ended, files, trxFile,
                   isXunitV3, sessions, killOnCancel, stopOnCancel, shortcut, lastApply,
                   summaries, combined, cancelAt>>

\* the 30 s timer of the readiness wait fires before the wait resolved: the
\* process is killed and the wait resolves as failed
ReadyTimeout ==
    /\ mode = "debug" /\ pc = "ready"
    /\ procs' = Kill(procs, {CurProc})
    /\ log' = log \cup {Line(gi, TimeoutLine(isXunitV3))}
    /\ pc' = "readyFailed"
    /\ NoMark
    /\ UNCHANGED <<adapterVars, mode, testsToRun, testsByProject, gi, cancelled, dirCreated, dirExists,
                   ended, files, trxFile,
                   isXunitV3, sessions, killOnCancel, stopOnCancel, shortcut, lastApply,
                   summaries, combined, cancelAt>>

\* the message of the errored items when the runner did not become ready
NotReadyMessage(v3) ==
    IF v3 THEN "xUnit v3 test runner did not start"
    ELSE "Could not find test runner process to attach to"

\* what the handler writes to the output channel then
NotReadyLine(v3) ==
    IF v3 THEN "xUnit v3 process did not become ready for debug attach"
    ELSE "Could not find runner PID - debug attach failed"

\* the readiness wait resolved as failed: the group is marked errored and the
\* loop continues
ReadyFailed ==
    /\ mode = "debug" /\ pc = "readyFailed"
    /\ Mark(ErrorEach(Group.tests, NotReadyMessage(isXunitV3)))
    /\ log' = log \cup {Line(gi, NotReadyLine(isXunitV3))}
    /\ pc' = "loop"
    /\ UNCHANGED <<adapterVars, mode, testsToRun, testsByProject, gi, cancelled, dirCreated, dirExists,
                   ended, procs, files,
                   trxFile, isXunitV3, sessions, killOnCancel, stopOnCancel, shortcut,
                   lastApply, summaries, combined, cancelAt>>

\* startDebugging settles: started (the handler sets its termination and
\* cancellation listeners and waits), not started (the group is marked
\* errored and the loop continues) or rejected (catch, finally).  The
\* listeners are set in the continuation of the await: a session that was
\* started may be gone by then, and its termination event is not seen
StartDebuggingDone ==
    /\ mode = "debug" /\ pc = "attach"
    /\ \E r \in {"started", "refused", "rejected"} :
          CASE r = "started" ->
                 /\ \E gone \in BOOLEAN :
                       sessions' = [sessions EXCEPT ![CurSession].active = ~gone]
                 /\ IF cancelled
                    THEN shortcut' = shortcut \cup {SessionListener(CurSession)} /\ UNCHANGED stopOnCancel
                    ELSE stopOnCancel' = stopOnCancel \cup {CurSession} /\ UNCHANGED shortcut
                 /\ pc' = "session"
                 /\ NoMark
                 /\ UNCHANGED <<log, dirExists, ended>>
            [] r = "refused" ->
                 /\ Mark(ErrorEach(Group.tests, "Failed to attach debugger to test runner"))
                 /\ log' = log \cup {Line(gi, "Failed to start attach debug session")}
                 /\ pc' = "loop"
                 /\ UNCHANGED <<sessions, stopOnCancel, shortcut, dirExists, ended>>
            [] OTHER ->
                 /\ log' = log \cup {Line(0, "Debug handler error")}
                 /\ Finally
                 /\ NoMark
                 /\ UNCHANGED <<sessions, stopOnCancel, shortcut>>
    /\ UNCHANGED <<adapterVars, mode, testsToRun, testsByProject, gi, cancelled, dirCreated, procs,
                   files, trxFile,
                   isXunitV3, killOnCancel, lastApply, summaries, combined, cancelAt>>

\* an active debug session terminates; the wait of the handler resolves when
\* the name of the session is the SESSION_NAME it waits for
SessionTerminated ==
    /\ mode = "debug" /\ pc \notin Running \cup {"done"}
    /\ \E k \in 1..Len(sessions) :
          /\ sessions[k].active
          /\ sessions' = [sessions EXCEPT ![k].active = FALSE]
          /\ pc' = IF pc = "session" /\ sessions[k].name = sessions[CurSession].name
                   THEN "sessionOver" ELSE pc
    /\ NoMark
    /\ UNCHANGED <<adapterVars, mode, testsToRun, testsByProject, gi, cancelled, dirCreated, dirExists,
                   ended, procs, files,
                   trxFile, isXunitV3, killOnCancel, stopOnCancel, shortcut, lastApply,
                   summaries, combined, log, cancelAt>>

\* a handler that looks for a result log after every session, whatever the
\* strategy
SessionOver_AlwaysSleep ==
    /\ mode = "debug" /\ pc = "sessionOver"
    /\ log' = log \cup {Line(gi, "Debug session ended.")}
    /\ NoMark /\ pc' = "sleep"
    /\ UNCHANGED <<adapterVars, mode, testsToRun, testsByProject, gi, cancelled, dirCreated, dirExists,
                   ended, procs, files,
                   trxFile, isXunitV3, sessions, killOnCancel, stopOnCancel, shortcut,
                   lastApply, summaries, combined, cancelAt>>

\* the wait on the session is over: the direct-executable strategy marks the
\* tests passed, the hosted-runner strategy sleeps 500 ms before it looks for
\* the result log
SessionOver ==
    /\ mode = "debug" /\ pc = "sessionOver"
    /\ log' = log \cup {Line(gi, "Debug session ended.")}
    /\ IF isXunitV3
       THEN Mark(MarkEach(Group.tests, "passed")) /\ pc' = "loop"
       ELSE NoMark /\ pc' = "sleep"
    /\ UNCHANGED <<adapterVars, mode, testsToRun, testsByProject, gi, cancelled, dirCreated, dirExists,
                   ended, procs, files,
                   trxFile, isXunitV3, sessions, killOnCancel, stopOnCancel, shortcut,
                   lastApply, summaries, combined, cancelAt>>

\* after the sleep the result log is looked up under the prefix "debug-run":
\* without one the tests are marked passed, else parseTrxFile is awaited
SleepDone ==
    /\ mode = "debug" /\ pc = "sleep"
    /\ trxFile' = findTrxFile(dirExists, files, "debug-run", 0)
    /\ IF trxFile' = 0
       THEN /\ log' = log \cup {Line(gi, "TRX not found - marking tests as passed")}
            /\ Mark(MarkEach(Group.tests, "passed"))
            /\ pc' = "loop"
       ELSE /\ NoMark
            /\ pc' = "parse"
            /\ UNCHANGED log
    /\ UNCHANGED <<adapterVars, mode, testsToRun, testsByProject, gi, cancelled, dirCreated, dirExists,
                   ended, procs, files,
                   isXunitV3, sessions, killOnCancel, stopOnCancel, shortcut, lastApply,
                   summaries, combined, cancelAt>>

\* parseTrxFile settles: the results are applied (without expected items), or
\* the group is marked errored with the parser's message
DebugParseDone ==
    /\ mode = "debug" /\ pc = "parse"
    /\ \E c \in {files[trxFile].content} :
       \E out \in {applyTestResults(c.results, FALSE, <<>>)} :
           IF c.ok
           THEN /\ Mark(out.calls)
                /\ lastApply' = Applied(c.results, FALSE, <<>>, out)
           ELSE /\ Mark(ErrorEach(Group.tests, ParserMessage))
                /\ UNCHANGED lastApply
    /\ pc' = "loop"
    /\ UNCHANGED <<adapterVars, mode, testsToRun, testsByProject, gi, cancelled, dirCreated, dirExists,
                   ended, procs, files,
                   trxFile, isXunitV3, sessions, killOnCancel, stopOnCancel, shortcut,
                   summaries, combined, log, cancelAt>>

(***************************************************************************)
(* Cancellation.                                                           *)
(***************************************************************************)
\* the processes the listeners of the token kill: the test process the run
\* handler awaits (its listener is disposed on close and on error), and every
\* runner whose readiness wait registered a listener (never disposed)
KillTargets == IF mode = "run" THEN (IF pc = "test" THEN {CurProc} ELSE {}) ELSE killOnCancel

\* the names of the sessions whose waits registered a listener
StopNames == {sessions[k].name : k \in stopOnCancel}

\* the token is cancelled and its listeners are called: processes are killed,
\* the named sessions are stopped, a readiness wait resolves as failed and a
\* session wait resolves
Cancel ==
    /\ ~cancelled /\ pc \notin Running \cup {"done"}
    /\ cancelled' = TRUE
    /\ cancelAt' = <<pc, gi>>
    /\ procs' = Kill(procs, KillTargets)
    /\ sessions' = Stop(sessions, StopNames)
    /\ pc' = CASE pc = "ready"   -> "readyFailed"
               [] pc = "session" -> "sessionOver"
               [] OTHER          -> pc
    /\ NoMark
    /\ UNCHANGED <<adapterVars, mode, testsToRun, testsByProject, gi, dirCreated, dirExists, ended,
                   files, trxFile,
                   isXunitV3, killOnCancel, stopOnCancel, shortcut, lastApply, summaries,
                   combined, log>>

\* a listener that was registered on the already cancelled token is called
FireShortcut ==
    /\ pc \notin Running \cup {"done"}
    /\ \E l \in shortcut :
          /\ shortcut' = shortcut \ {l}
          /\ IF l.kind = "ready"
             THEN /\ procs' = Kill(procs, {l.target})
                  /\ pc' = IF pc = "ready" /\ l.target = CurProc THEN "readyFailed" ELSE pc
                  /\ UNCHANGED sessions
             ELSE /\ sessions' = Stop(sessions, {sessions[l.target].name})
                  /\ pc' = IF pc = "session" /\ l.target = CurSession THEN "sessionOver" ELSE pc
                  /\ UNCHANGED procs
    /\ NoMark
    /\ UNCHANGED <<adapterVars, mode, testsToRun, testsByProject, gi, cancelled, dirCreated, dirExists,
                   ended, files, trxFile,
                   isXunitV3, killOnCancel, stopOnCancel, lastApply, summaries, combined,
                   log, cancelAt>>

Next ==
    \/ RunStart \/ RunLoop \/ TestProcError \/ TestProcClose \/ RunParseDone
    \/ DebugStart \/ DebugLoop \/ BuildDone \/ TargetPathDone \/ ReadySignal
    \/ RunnerExit \/ ReadyTimeout \/ ReadyFailed \/ StartDebuggingDone
    \/ SessionTerminated \/ SessionOver \/ SleepDone \/ DebugParseDone
    \/ Cancel \/ FireShortcut

Spec == Init /\ [][Next]_vars

(***************************************************************************)
(* The debug handler alone, with the scheduling the runtime guarantees: a  *)
(* timer that was set fires, and a continuation that is ready runs.        *)
(***************************************************************************)
\* the requests explored under fair scheduling: one group (a project, a
\* class, a theory, a fact) and two groups
FairRequests == {<<"P1">>, <<"C1">>, <<"T1">>, <<"M2">>, <<"M1", "M2">>, getAllTests}

InitDebug == Init /\ mode = "debug" /\ testsToRun \in FairRequests

NextDebug ==
    \/ DebugStart \/ DebugLoop \/ BuildDone \/ TargetPathDone \/ ReadySignal
    \/ RunnerExit \/ ReadyTimeout \/ ReadyFailed \/ StartDebuggingDone
    \/ SessionTerminated \/ SessionOver \/ SleepDone \/ DebugParseDone
    \/ Cancel \/ FireShortcut

(***************************************************************************)
(* The handlers on a request that names excluded items: the Test Explorer  *)
(* passes the tests the user has hidden as request.exclude, each of them   *)
(* at or below an included item.                                           *)
(***************************************************************************)
\* the requests explored: the included items (getAllTests for a request
\* without include) and the excluded ones
ExcludingRequests ==
    {[include |-> <<"P1">>, exclude |-> <<"M1">>],
     [include |-> <<"T1">>, exclude |-> <<"K1">>],
     [include |-> getAllTests, exclude |-> <<"K1">>],
     [include |-> getAllTests, exclude |-> <<"M3">>]}

InitExclude ==
    /\ Invoked(<<>>)
    /\ SpawnIdle /\ dap = <<>> /\ lastCall = <<>> /\ registration = <<>> /\ client = <<>>
    /\ discovery = "distinct"
    /\ \E request \in ExcludingRequests :
          testsToRun = request.include /\ testsToExclude = request.exclude

SpecExclude == InitExclude /\ [][Next]_vars

SpecDebugFair ==
    /\ InitDebug /\ [][NextDebug]_vars
    /\ WF_vars(ReadyTimeout) /\ WF_vars(ReadyFailed) /\ WF_vars(DebugLoop)

\* the same with every step of the handler that the runtime takes by itself:
\* a continuation that is ready runs, a timer that was set fires, a parse
\* settles
SpecSessionFair ==
    /\ InitDebug /\ [][NextDebug]_vars
    /\ WF_vars(ReadyTimeout) /\ WF_vars(ReadyFailed) /\ WF_vars(DebugLoop)
    /\ WF_vars(FireShortcut) /\ WF_vars(SessionOver) /\ WF_vars(SleepDone)
    /\ WF_vars(DebugParseDone)

(***************************************************************************)
(* The debug handler in a window where a debug session of the user is     *)
(* active, together with the protocol traffic of the sessions it starts:   *)
(* VS Code sends a setExceptionBreakpoints request to the debug adapter of *)
(* an active session, after the attach and whenever the user changes the   *)
(* exception settings.                                                     *)
(***************************************************************************)
\* the entry that tells the debugger never to break on the exception thrown
\* inside the xUnit adapter
NeverBreak == [path |-> <<"CLR", "System.MissingMethodException">>, breakMode |-> "never"]

\* an entry of the user's own exception settings
UserEntry == [path |-> <<"CLR", "System.Exception">>, breakMode |-> "always"]

\* message.arguments.exceptionOptions of a request: absent (<<>>), an empty
\* list, or a list with entries
ExceptionOptions == {<<>>, << <<>> >>, << <<UserEntry>> >>}

\* createDebugHandler calls vscode.debug.startDebugging without registering
\* a DebugAdapterTrackerFactory, so the debug adapter receives the request
\* as VS Code sent it
SetExceptionBreakpoints ==
    /\ mode = "debug"
    /\ \E k \in 1..Len(sessions), opts \in ExceptionOptions :
          /\ sessions[k].active /\ sessions[k].group > 0
          /\ dap' = <<[session |-> k, sent |-> opts, received |-> opts]>>
    /\ UNCHANGED <<handlerVars, workerVars, spawnVars, lastCall>>

\* a debug session of the user's own that is active when the handler is invoked
UserSession == [name |-> <<"user", 0>>, group |-> 0, active |-> TRUE, stopped |-> FALSE]

\* the requests explored with the protocol traffic
DapRequests == {<<"P1">>, <<"M2">>, getAllTests}

InitDap == InitSessions(<<UserSession>>) /\ mode = "debug" /\ testsToRun \in DapRequests

NextDap == NextDebug \/ SetExceptionBreakpoints

SpecDap == InitDap /\ [][NextDap]_vars

(***************************************************************************)
(* Two overlapping debug requests: the handler is invoked while the session *)
(* that another invocation of it started for the project P1, with the       *)
(* direct-executable strategy, is still active.                             *)
(***************************************************************************)
\* the session of the other invocation, named by SESSION_NAME as every
\* session the handler starts
OtherSession ==
    [name |-> SessionName(TRUE, "P1", 0), group |-> 0, active |-> TRUE, stopped |-> FALSE]

InitOverlap == InitSessions(<<OtherSession>>) /\ mode = "debug" /\ testsToRun \in FairRequests

SpecOverlap == InitOverlap /\ [][NextDebug]_vars

(***************************************************************************)
(* The correlator on its own: applyTestResults is called once on a result  *)
(* log of up to MaxApplyResults entries and a list of expected items.      *)
(***************************************************************************)
\* the entries of the result logs
ApplyEntries ==
    {Result("N1.C1.M1", <<"M1">>, "Passed", 5),
     Result("N1.C1.M1", <<"M1">>, "Failed", 3),
     Result("N1.C1.T1", <<"a", "b">>, "Failed", 0),
     Result("N1.C1.T1", <<"a", "c">>, "Skipped", 0),
     Result("N1.C1.T1", <<"a", TruncMark>>, "Passed", 2),
     Result("N1.C1.T1", <<"a", "c", TruncMark>>, "Failed", -2),
     Result("N1.C1.T1", <<"z", TruncMark>>, "Passed", 0),
     Result("N2.C2.M2", <<"M2">>, "Passed", 1),
     Result("N2.C2.M3", <<"M3">>, "NotExecuted", 0),
     Result("N1.C1.Gone", <<"Gone">>, "Passed", 4)}

ApplyDocs == UNION {[1..k -> ApplyEntries] : k \in 0..MaxApplyResults}

\* the lists of expected items
ApplyExpected ==
    {<<>>, <<"P1">>, <<"P2">>, <<"P1", "P2">>, <<"C1", "M1">>, <<"T1">>, <<"T1", "K1">>,
     <<"M1", "K1", "K2", "M2", "M3">>, <<"N2", "M2">>, getAllTests}

InitApply ==
    /\ mode = "apply"
    /\ testsToRun = <<>>
    /\ testsByProject = <<>>
    /\ pc = "idle"
    /\ gi = 0
    /\ cancelled = FALSE
    /\ dirCreated = FALSE
    /\ dirExists = FALSE
    /\ ended = 0
    /\ state = [i \in Items |-> None]
    /\ msg = [i \in Items |-> ""]
    /\ enqueuedEver = {}
    /\ startedEver = {}
    /\ procs = <<>>
    /\ files = <<>>
    /\ trxFile = 0
    /\ isXunitV3 = FALSE
    /\ sessions = <<>>
    /\ killOnCancel = {}
    /\ stopOnCancel = {}
    /\ shortcut = {}
    /\ lastApply = <<>>
    /\ summaries = <<>>
    /\ combined = <<>>
    /\ log = {}
    /\ cancelAt = <<>>
    /\ AdaptersIdle

\* the same, on a tree whose two projects share a qualified name
InitShared ==
    /\ mode = "apply" /\ testsToRun = <<>> /\ testsByProject = <<>> /\ pc = "idle" /\ gi = 0
    /\ cancelled = FALSE /\ dirCreated = FALSE /\ dirExists = FALSE /\ ended = 0
    /\ state = [i \in Items |-> None] /\ msg = [i \in Items |-> ""]
    /\ enqueuedEver = {} /\ startedEver = {} /\ procs = <<>> /\ files = <<>> /\ trxFile = 0
    /\ isXunitV3 = FALSE /\ sessions = <<>> /\ killOnCancel = {} /\ stopOnCancel = {}
    /\ shortcut = {} /\ lastApply = <<>> /\ summaries = <<>> /\ combined = <<>> /\ log = {}
    /\ cancelAt = <<>>
    /\ SpawnIdle /\ dap = <<>> /\ lastCall = <<>> /\ registration = <<>> /\ client = <<>>
    /\ discovery = "shared" /\ testsToExclude = <<>>

\* applyTestResults(controller, results, run, outputChannel[, expectedItems])
ApplyCall ==
    /\ mode = "apply" /\ lastApply = <<>>
    /\ \E results \in ApplyDocs, hasExpected \in BOOLEAN, expected \in ApplyExpected :
          /\ ~hasExpected => expected = <<>>
          /\ \E out \in {applyTestResults(results, hasExpected, expected)} :
                /\ Mark(out.calls)
                /\ lastApply' = Applied(results, hasExpected, expected, out)
    /\ UNCHANGED <<adapterVars, mode, testsToRun, testsByProject, pc, gi, cancelled, dirCreated,
                   dirExists, ended, procs,
                   files, trxFile, isXunitV3, sessions, killOnCancel, stopOnCancel, shortcut,
                   summaries, combined, log, cancelAt>>

\* applyTestResults is called once more on the same run with the arguments of
\* the call before
ApplyAgain ==
    /\ mode = "apply" /\ Len(lastApply) = 1
    /\ \E a \in {lastApply[1]} :
          \E out \in {applyTestResults(a.results, a.hasExpected, a.expected)} :
             /\ Mark(out.calls)
             /\ lastApply' = lastApply \o Applied(a.results, a.hasExpected, a.expected, out)
    /\ UNCHANGED <<adapterVars, mode, testsToRun, testsByProject, pc, gi, cancelled, dirCreated,
                   dirExists, ended, procs,
                   files, trxFile, isXunitV3, sessions, killOnCancel, stopOnCancel, shortcut,
                   summaries, combined, log, cancelAt>>

NextApply == ApplyCall \/ ApplyAgain

SpecApply == InitApply /\ [][NextApply]_vars

SpecShared == InitShared /\ [][NextApply]_vars

(***************************************************************************)
(* spawnProcess and killProcessTree (dotnetTestRunner.ts).  A string is a  *)
(* sequence of characters.  The shell runs the command below it and waits  *)
(* for it; the streams are shared by the whole tree, so 'close' is emitted *)
(* when no process of the tree is left.                                    *)
(***************************************************************************)
\* the handler is not invoked
HandlerIdle ==
    /\ mode = "idle"
    /\ testsToRun = <<>>
    /\ testsByProject = <<>>
    /\ pc = "idle"
    /\ gi = 0
    /\ cancelled = FALSE
    /\ dirCreated = FALSE
    /\ dirExists = FALSE
    /\ ended = 0
    /\ state = [i \in Items |-> None]
    /\ msg = [i \in Items |-> ""]
    /\ enqueuedEver = {}
    /\ startedEver = {}
    /\ procs = <<>>
    /\ files = <<>>
    /\ trxFile = 0
    /\ isXunitV3 = FALSE
    /\ sessions = <<>>
    /\ killOnCancel = {}
    /\ stopOnCancel = {}
    /\ shortcut = {}
    /\ lastApply = <<>>
    /\ summaries = <<>>
    /\ combined = <<>>
    /\ log = {}
    /\ cancelAt = <<>>

\* the line feed and the carriage return
LF == "\n"
CR == "\r"

\* the characters of the output
Chars == {"a", CR, LF}

\* the strings of at most n characters
Strings(n) == UNION {[1..k -> Chars] : k \in 0..n}

\* s.split(/\r?\n/)
RECURSIVE split(_)
split(s) ==
    IF \A k \in 1..Len(s) : s[k] # LF THEN <<s>>
    ELSE LET k == CHOOSE j \in 1..Len(s) : s[j] = LF /\ \A h \in 1..(j - 1) : s[h] # LF
             head == SubSeq(s, 1, k - 1)
         IN  <<IF head # <<>> /\ head[Len(head)] = CR
               THEN SubSeq(head, 1, Len(head) - 1) ELSE head>>
             \o split(SubSeq(s, k + 1, Len(s)))

\* a handler that starts every chunk with an empty buffer
keepIncomplete_Dropped(ls) == <<>>

\* "stdoutBuffer = lines.pop() || ''": the incomplete line kept in the buffer
keepIncomplete(ls) == ls[Len(ls)]

\* "if (line && options.onStdout)"
NonEmpty(l) == l # <<>>

\* the lines the 'data' handler hands to the callback: those left after
\* lines.pop() that are not empty
completeLines(ls) == SelectSeq(SubSeq(ls, 1, Len(ls) - 1), NonEmpty)

\* the flush of the 'close' handler: "if (stdoutBuffer && options.onStdout)"
flush(b) == IF b # <<>> THEN <<b>> ELSE <<>>

\* "exitCode: code ?? -1"
ExitCode(c) == IF c = <<>> THEN -1 ELSE c[1]

\* the values a promise settles with
Resolved(c, out, err) == [kind |-> "resolved", exitCode |-> c, stdout |-> out, stderr |-> err]
Rejected == [kind |-> "rejected", exitCode |-> 0, stdout |-> <<>>, stderr |-> <<>>]

\* a promise that takes the last call of resolve or reject
Settle_Last(p, v) == <<v>>

\* resolve(v) or reject(v): a settled promise stays as it is
Settle(p, v) == IF p = <<>> THEN <<v>> ELSE p

\* killProcessTree(childProcess.pid): taskkill /F /T ends the tree on
\* win32; elsewhere SIGTERM goes to the one pid; without a pid (the spawn
\* failed) both throw or fail, which is ignored
killProcessTree(pf, t) ==
    IF t["child"] # "running" THEN t
    ELSE IF pf = "win32" THEN [p \in Pids |-> IF t[p] = "running" THEN "killed" ELSE t[p]]
    ELSE [t EXCEPT !["child"] = "killed"]

\* the promise executor has run: the process is spawned (or the OS could
\* not start it) and the listeners are registered
InitSpawn ==
    /\ HandlerIdle
    /\ dap = <<>>
    /\ lastCall = <<>>
    /\ WorkerIdle
    /\ platform \in {"win32", "posix"}
    /\ \E st \in {"running", "failed"} : tree = [p \in Pids |-> st]
    /\ code = <<>>
    /\ cancellationListener = "registered"
    /\ requested = FALSE
    /\ output = [s \in Streams |-> <<>>]
    /\ buffer = [s \in Streams |-> <<>>]
    /\ lines = [s \in Streams |-> <<>>]
    /\ events = {}
    /\ promise = <<>>

\* the 'data' handler of a stream, for any chunk the stream still carries
OnData ==
    /\ mode = "idle" /\ tree["child"] \notin {"none", "failed"} /\ "close" \notin events
    /\ \E s \in Streams :
          /\ Len(output[s]) < MaxOutput
          /\ \E chunk \in Strings(MaxOutput - Len(output[s])) \ {<<>>} :
                /\ output' = [output EXCEPT ![s] = @ \o chunk]
                /\ \E ls \in {split(buffer[s] \o chunk)} :
                      /\ buffer' = [buffer EXCEPT ![s] = keepIncomplete(ls)]
                      /\ lines' = [lines EXCEPT ![s] = @ \o completeLines(ls)]
    /\ UNCHANGED <<handlerVars, workerVars, dap, lastCall, platform, tree, code, cancellationListener, requested,
                   events, promise>>

\* the command ends on its own
DescendantExit ==
    /\ mode = "idle" /\ tree["descendant"] = "running"
    /\ tree' = [tree EXCEPT !["descendant"] = "exited"]
    /\ UNCHANGED <<handlerVars, workerVars, dap, lastCall, platform, code, cancellationListener, requested, output,
                   buffer, lines, events, promise>>

\* the shell ends with the exit code of its command
ChildExit ==
    /\ mode = "idle" /\ tree["child"] = "running" /\ tree["descendant"] # "running"
    /\ tree' = [tree EXCEPT !["child"] = "exited"]
    /\ \E c \in {0, 1} : code' = <<c>>
    /\ UNCHANGED <<handlerVars, workerVars, dap, lastCall, platform, cancellationListener, requested, output,
                   buffer, lines, events, promise>>

\* cancellation is requested on the token: the listener, if it is still
\* registered, calls killProcessTree; a process ended by a signal has no
\* exit code, one ended by taskkill has exit code 1
OnCancellationRequested ==
    /\ mode = "idle" /\ tree["child"] # "none" /\ ~requested
    /\ requested' = TRUE
    /\ IF cancellationListener = "registered"
       THEN /\ tree' = killProcessTree(platform, tree)
            /\ code' = IF tree["child"] # "running" THEN code
                       ELSE IF platform = "win32" THEN <<1>> ELSE <<>>
       ELSE UNCHANGED <<tree, code>>
    /\ UNCHANGED <<handlerVars, workerVars, dap, lastCall, platform, cancellationListener, output, buffer, lines,
                   events, promise>>

\* the 'error' handler: the OS could not start the process
OnError ==
    /\ mode = "idle" /\ tree["child"] = "failed" /\ events = {}
    /\ events' = {"error"}
    /\ cancellationListener' = "disposed"
    /\ promise' = Settle(promise, Rejected)
    /\ UNCHANGED <<handlerVars, workerVars, dap, lastCall, platform, tree, code, requested, output, buffer, lines>>

\* the 'close' handler: emitted when the process has ended and its streams
\* are closed, and also after 'error' with the error number as the code
OnClose ==
    /\ mode = "idle" /\ "close" \notin events
    /\ \/ /\ tree["child"] \in {"exited", "killed"} /\ tree["descendant"] # "running"
          /\ UNCHANGED code
       \/ /\ "error" \in events
          /\ code' = <<-2>>
    /\ events' = events \cup {"close"}
    /\ cancellationListener' = "disposed"
    /\ lines' = [s \in Streams |-> lines[s] \o flush(buffer[s])]
    /\ promise' = Settle(promise, Resolved(ExitCode(code'), output["stdout"], output["stderr"]))
    /\ UNCHANGED <<handlerVars, workerVars, dap, lastCall, platform, tree, requested, output, buffer>>

NextSpawn ==
    \/ OnData
    \/ DescendantExit
    \/ ChildExit
    \/ OnCancellationRequested
    \/ OnError
    \/ OnClose

SpecSpawn == InitSpawn /\ [][NextSpawn]_vars

(***************************************************************************)
(* The filter builder on a leaf: buildVSTestFilter is called on one test   *)
(* item whose metadata carries a qualified name of up to MaxNameLen        *)
(* characters.  Qualified names are display strings of C# symbols:         *)
(* letters, digits and punctuation such as the comma of a generic          *)
(* argument list, never a percent sign.                                    *)
(***************************************************************************)
\* the characters of the qualified names
NameChars == {"M", "2", "C", ","}

\* the qualified names
Names == UNION {[1..k -> NameChars] : k \in 0..MaxNameLen}

\* value.replace(',', '%2C'): a string pattern replaces the first comma only
RECURSIVE encodeFilterValue_First(_)
encodeFilterValue_First(value) ==
    IF value = <<>> THEN <<>>
    ELSE IF Head(value) = "," THEN <<"%", "2", "C">> \o Tail(value)
    ELSE <<Head(value)>> \o encodeFilterValue_First(Tail(value))

\* value.replace(/,/g, '%2C')
RECURSIVE encodeFilterValue(_)
encodeFilterValue(value) ==
    IF value = <<>> THEN <<>>
    ELSE (IF Head(value) = "," THEN <<"%", "2", "C">> ELSE <<Head(value)>>)
         \o encodeFilterValue(Tail(value))

\* the clause of a leaf: `FullyQualifiedName=${fqn}`, the text before the
\* value being one symbol
exactClause(fullyQualifiedName) ==
    <<"FullyQualifiedName=">> \o encodeFilterValue(fullyQualifiedName)

\* a call that was made (or has returned)
CallOf(fn, arg, returned, result) ==
    [fn |-> fn, arg |-> arg, returned |-> returned, result |-> result]

\* only the function called is under way
OnlyCall == HandlerIdle /\ SpawnIdle /\ dap = <<>> /\ WorkerIdle

InitFilter ==
    /\ OnlyCall
    /\ \E n \in Names : lastCall = <<CallOf("buildVSTestFilter", n, FALSE, <<>>)>>

\* buildVSTestFilter([item]) returns, item being a leaf with the name
BuildLeafFilter ==
    /\ lastCall # <<>> /\ lastCall[1].fn = "buildVSTestFilter" /\ ~lastCall[1].returned
    /\ lastCall' = <<CallOf("buildVSTestFilter", lastCall[1].arg, TRUE,
                            exactClause(lastCall[1].arg))>>
    /\ UNCHANGED <<handlerVars, workerVars, spawnVars, dap>>

NextFilter == BuildLeafFilter

SpecFilter == InitFilter /\ [][NextFilter]_vars

(***************************************************************************)
(* The parser of the result log (trxParser): parseDuration on a duration   *)
(* attribute of up to MaxDurationLen characters.  A number is a record:    *)
(* NaN, or a count of milliseconds.                                        *)
(***************************************************************************)
\* the characters of the duration attributes: a digit, the two separators
\* and a character that is neither
DurationChars == {"1", ":", ".", "x"}

\* the duration attributes
Durations == UNION {[1..k -> DurationChars] : k \in 0..MaxDurationLen}

\* the decimal digits, "0" first
DigitChars == <<"0", "1", "2", "3", "4", "5", "6", "7", "8", "9">>

\* s.split(c) for a separator of one character
RECURSIVE splitOn(_, _)
splitOn(s, c) ==
    IF \A k \in 1..Len(s) : s[k] # c THEN <<s>>
    ELSE LET k == CHOOSE j \in 1..Len(s) : s[j] = c /\ \A h \in 1..(j - 1) : s[h] # c
         IN  <<SubSeq(s, 1, k - 1)>> \o splitOn(SubSeq(s, k + 1, Len(s)), c)

\* the longest prefix of s made of decimal digits
DigitPrefix(s) ==
    LET n == CHOOSE k \in 0..Len(s) :
                 /\ \A j \in 1..k : s[j] \in Range(DigitChars)
                 /\ k < Len(s) => s[k + 1] \notin Range(DigitChars)
    IN  SubSeq(s, 1, n)

\* the number a string of decimal digits denotes
RECURSIVE Decimal(_)
Decimal(ds) ==
    IF ds = <<>> THEN 0
    ELSE 10 * Decimal(SubSeq(ds, 1, Len(ds) - 1))
         + (CHOOSE v \in 0..9 : DigitChars[v + 1] = ds[Len(ds)])

\* the numbers of JavaScript that occur
NaN == [nan |-> TRUE, ms |-> 0]
Num(n) == [nan |-> FALSE, ms |-> n]

\* parseInt(s, 10) of a string without blanks or sign: the number its
\* leading digits denote, NaN when it does not start with a digit
parseInt(s) == IF DigitPrefix(s) = <<>> THEN NaN ELSE Num(Decimal(DigitPrefix(s)))

\* parseFloat('0.' + s) * 1000: the leading digits of s as a decimal
\* fraction, in milliseconds (no fraction of more than three digits fits in
\* a duration attribute of the lengths explored)
fractionMs(s) ==
    LET ds == DigitPrefix(s)
        d3 == SubSeq(ds \o <<"0", "0", "0">>, 1, 3)
    IN  Num(Decimal(d3))

\* parseDuration(duration)
parseDuration(duration) ==
    IF duration = <<>> THEN Num(0)
    ELSE LET parts == splitOn(duration, ":")
         IN  IF Len(parts) # 3 THEN Num(0)
             ELSE LET hours == parseInt(parts[1])
                      minutes == parseInt(parts[2])
                      secondsParts == splitOn(parts[3], ".")
                      seconds == parseInt(secondsParts[1])
                      fraction == IF Len(secondsParts) > 1 THEN fractionMs(secondsParts[2])
                                  ELSE Num(0)
                  IN  IF hours.nan \/ minutes.nan \/ seconds.nan THEN NaN
                      ELSE Num((hours.ms * 3600 + minutes.ms * 60 + seconds.ms) * 1000
                               + fraction.ms)

InitDuration ==
    /\ OnlyCall
    /\ \E d \in Durations : lastCall = <<CallOf("parseDuration", d, FALSE, Num(0))>>

\* parseDuration returns
ParseDuration ==
    /\ lastCall # <<>> /\ lastCall[1].fn = "parseDuration" /\ ~lastCall[1].returned
    /\ lastCall' = <<CallOf("parseDuration", lastCall[1].arg, TRUE,
                            parseDuration(lastCall[1].arg))>>
    /\ UNCHANGED <<handlerVars, workerVars, spawnVars, dap>>

NextDuration == ParseDuration

SpecDuration == InitDuration /\ [][NextDuration]_vars

(***************************************************************************)
(* parseTrxFile on a result log whose results section has up to MaxEntries *)
(* UnitTestResult entries.                                                 *)
(***************************************************************************)
\* the outcome attributes of the entries: the four outcomes, another outcome
\* of the TRX format, and "" for an entry without the attribute
RawOutcomes == Outcomes \cup {"Inconclusive", ""}

\* the UnitTestResult entries: testId, testName, outcome and duration
UnitTestResults ==
    [testId : {"id1", "id2"}, testName : {"t"}, outcome : RawOutcomes,
     duration : {<<>>, <<"1", ":", "1", ":", "1">>}]

\* the test definitions of the log: none, or one for id1
TestDefinitions == {<<>>, <<[id |-> "id1", name |-> "N1.C1.M1"]>>}

\* the result logs: a results section (or none) and the test definitions
TrxDocs ==
    [hasResults : BOOLEAN,
     entries : UNION {[1..k -> UnitTestResults] : k \in 0..MaxEntries},
     definitions : TestDefinitions]

\* a parser that passes the outcome attribute on
normalizeOutcome_Raw(outcome) == outcome

\* normalizeOutcome: the switch with its default
normalizeOutcome(outcome) ==
    CASE outcome = "Passed"      -> "Passed"
      [] outcome = "Failed"      -> "Failed"
      [] outcome = "NotExecuted" -> "NotExecuted"
      [] outcome = "Skipped"     -> "Skipped"
      [] OTHER                   -> "NotExecuted"

\* testRun.Results.UnitTestResult as the XML parser gives it: undefined
\* (<<>>) without entries, the entry itself for one, an array for more
UnitTestResultNode(entries) ==
    IF entries = <<>> THEN <<>>
    ELSE IF Len(entries) = 1 THEN <<[isArray |-> FALSE, value |-> entries[1]]>>
    ELSE <<[isArray |-> TRUE, value |-> entries]>>

\* "testDefinitions.get(testId) || testName"
definedName(definitions, testId, testName) ==
    IF \E k \in 1..Len(definitions) : definitions[k].id = testId
    THEN definitions[CHOOSE k \in 1..Len(definitions) : definitions[k].id = testId].name
    ELSE testName

\* the result pushed for one entry
TrxTestResult(e, definitions) ==
    [testId |-> e.testId, testName |-> e.testName, displayName |-> e.testName,
     fullyQualifiedName |-> definedName(definitions, e.testId, e.testName),
     outcome |-> normalizeOutcome(e.outcome),
     duration |-> parseDuration(e.duration)]

\* parseTrxFile, on the parsed document
parseTrxFile(doc) ==
    IF ~doc.hasResults THEN <<>>
    ELSE LET node == UnitTestResultNode(doc.entries)
         IN  IF node = <<>> THEN <<>>
             ELSE LET unitTestResults == IF node[1].isArray THEN node[1].value
                                         ELSE <<node[1].value>>
                  IN  [k \in 1..Len(unitTestResults) |->
                          TrxTestResult(unitTestResults[k], doc.definitions)]

InitTrx ==
    /\ OnlyCall
    /\ \E doc \in TrxDocs :
          /\ ~doc.hasResults => doc.entries = <<>>
          /\ lastCall = <<CallOf("parseTrxFile", doc, FALSE, <<>>)>>

\* parseTrxFile returns
ParseTrx ==
    /\ lastCall # <<>> /\ lastCall[1].fn = "parseTrxFile" /\ ~lastCall[1].returned
    /\ lastCall' = <<CallOf("parseTrxFile", lastCall[1].arg, TRUE,
                            parseTrxFile(lastCall[1].arg))>>
    /\ UNCHANGED <<handlerVars, workerVars, spawnVars, dap>>

NextTrx == ParseTrx

SpecTrx == InitTrx /\ [][NextTrx]_vars

(***************************************************************************)
(* The tree builder on the cases of one theory method (buildTestTree):     *)
(* the case nodes are created for a list of two display names of up to     *)
(* MaxDisplayLen characters.  A 32-bit integer is kept as its two 16-bit   *)
(* halves <<high, low>> of the two's complement.                           *)
(***************************************************************************)
MaxDisplayLen == 2

\* the characters of the display names
HashChars == {"A", "B", "a"}

\* the display names of the cases
CaseNames == UNION {[1..k -> HashChars] : k \in 0..MaxDisplayLen}

\* s.charCodeAt(i)
charCodeAt(c) ==
    CASE c = "A" -> 65
      [] c = "B" -> 66
      [] c = "a" -> 97

\* (Math.imul(31, h) + c) | 0 on the halves of h
hashStep(h, c) ==
    LET low  == 31 * h[2] + c
        high == 31 * h[1] + (low \div 65536)
    IN  <<high % 65536, low % 65536>>

RECURSIVE hashLoop(_, _)
\* the loop of hashDisplayName over the characters of s
hashLoop(h, s) == IF s = <<>> THEN h ELSE hashLoop(hashStep(h, charCodeAt(Head(s))), Tail(s))

\* Math.abs(h) of a 32-bit h: the halves of the magnitude
abs32(h) ==
    IF h[1] < 32768 THEN h
    ELSE <<(65535 - h[1] + (IF h[2] = 0 THEN 1 ELSE 0)) % 65536, (65536 - h[2]) % 65536>>

\* hashDisplayName(s): the eight hexadecimal digits, as the two halves they
\* spell
hashDisplayName(s) == abs32(hashLoop(<<0, 0>>, s))

\* caseId: `${projectPath}|${fullyQualifiedName}|case|${caseKey}`
caseId(projectPath, fullyQualifiedName, displayName) ==
    <<projectPath, fullyQualifiedName, "case", hashDisplayName(displayName)>>

RECURSIVE addCases(_, _)
\* the loop over method.cases: createOrGetTestItem returns the child that
\* has the id if there is one and adds a child otherwise, then
\* setTestMetadata sets the display name of the item
addCases(children, cases) ==
    IF cases = <<>> THEN children
    ELSE LET id   == caseId("P1", "N1.C1.T1", Head(cases))
             had  == \E k \in 1..Len(children) : children[k].id = id
             next == IF had
                     THEN [k \in 1..Len(children) |->
                             IF children[k].id = id
                             THEN [children[k] EXCEPT !.displayName = Head(cases)]
                             ELSE children[k]]
                     ELSE Append(children, [id |-> id, label |-> Head(cases), displayName |-> Head(cases)])
         IN  addCases(next, Tail(cases))

InitHash ==
    /\ OnlyCall
    /\ \E a, b \in CaseNames : lastCall = <<CallOf("buildTestTree", <<a, b>>, FALSE, <<>>)>>

\* buildTestTree returns for a theory method with the cases of the call
BuildCases ==
    /\ lastCall # <<>> /\ lastCall[1].fn = "buildTestTree" /\ ~lastCall[1].returned
    /\ lastCall' = <<CallOf("buildTestTree", lastCall[1].arg, TRUE, addCases(<<>>, lastCall[1].arg))>>
    /\ UNCHANGED <<handlerVars, workerVars, spawnVars, dap>>

NextHash == BuildCases

SpecHash == InitHash /\ [][NextHash]_vars

(***************************************************************************)
(* The worker's WorkspaceLoader (Discovery/WorkspaceLoader.cs): threads    *)
(* call RegisterMSBuild, each up to MaxRegisterCalls times, and            *)
(* EnsureWorkspaceCreated (through LoadSolutionAsync / LoadProjectAsync)   *)
(* on a loader of their own, in any interleaving.  registration is         *)
(*   [lock, registered, succeeded, failed, pc, calls, workspace]           *)
(* with lock the thread inside lock (_registrationLock) or None,           *)
(* registered the static _msbuildRegistered, succeeded and failed the      *)
(* number of calls of MSBuildLocator.RegisterDefaults that returned and    *)
(* that threw, and workspace[t] whether _workspace of t's loader is set.   *)
(***************************************************************************)
MaxRegisterCalls == 2

Threads == {"t1", "t2"}

\* a lock that lets every thread in
lockFree_Always(holder) == TRUE

\* Monitor.Enter(_registrationLock) goes through when no thread holds the lock
lockFree(holder) == holder = None

InitRegister ==
    /\ HandlerIdle /\ SpawnIdle /\ dap = <<>> /\ lastCall = <<>> /\ client = <<>>
    /\ PlainInputs
    /\ registration = [lock |-> None, registered |-> FALSE, succeeded |-> 0, failed |-> 0,
                       pc |-> [t \in Threads |-> "out"], calls |-> [t \in Threads |-> 0],
                       workspace |-> [t \in Threads |-> FALSE]]

\* registration with the thread t at another place
AtPc(t, where) == [registration EXCEPT !.pc[t] = where]

\* RegisterMSBuild is called and the lock is entered
RegisterEnter(t) ==
    /\ registration.pc[t] = "out" /\ registration.calls[t] < MaxRegisterCalls
    /\ lockFree(registration.lock)
    /\ registration' = [AtPc(t, "locked") EXCEPT !.lock = t, !.calls[t] = @ + 1]
    /\ UNCHANGED <<handlerVars, spawnVars, dap, lastCall, client, inputVars>>

\* if (_msbuildRegistered) return; the lock is left on return
RegisterCheck(t) ==
    /\ registration.pc[t] = "locked"
    /\ registration' = IF registration.registered
                       THEN [AtPc(t, "out") EXCEPT !.lock = IF @ = t THEN None ELSE @]
                       ELSE AtPc(t, "registering")
    /\ UNCHANGED <<handlerVars, spawnVars, dap, lastCall, client, inputVars>>

\* MSBuildLocator.RegisterDefaults() returns, or throws: the catch rethrows
\* and the lock is left with the flag as it was
RegisterDefaults(t) ==
    /\ registration.pc[t] = "registering"
    /\ \E ok \in BOOLEAN :
          registration' = IF ok
                          THEN [AtPc(t, "registered") EXCEPT !.succeeded = @ + 1]
                          ELSE [AtPc(t, "out") EXCEPT !.failed = @ + 1,
                                                      !.lock = IF @ = t THEN None ELSE @]
    /\ UNCHANGED <<handlerVars, spawnVars, dap, lastCall, client, inputVars>>

\* _msbuildRegistered = true; the lock is left
RegisterSetFlag(t) ==
    /\ registration.pc[t] = "registered"
    /\ registration' = [AtPc(t, "out") EXCEPT !.registered = TRUE, !.lock = IF @ = t THEN None ELSE @]
    /\ UNCHANGED <<handlerVars, spawnVars, dap, lastCall, client, inputVars>>

\* EnsureWorkspaceCreated on the loader of t: returns when the workspace is
\* there, throws when MSBuild is not registered, else creates the workspace
EnsureWorkspaceCreated(t) ==
    /\ registration.pc[t] = "out"
    /\ ~registration.workspace[t]
    /\ registration.registered
    /\ registration' = [registration EXCEPT !.workspace[t] = TRUE]
    /\ UNCHANGED <<handlerVars, spawnVars, dap, lastCall, client, inputVars>>

NextRegister ==
    \E t \in Threads :
        \/ RegisterEnter(t) \/ RegisterCheck(t) \/ RegisterDefaults(t) \/ RegisterSetFlag(t)
        \/ EnsureWorkspaceCreated(t)

SpecRegister == InitRegister /\ [][NextRegister]_vars

(***************************************************************************)
(* The worker client (worker/workerClient.ts): requests are written to the *)
(* worker process as lines and their promises are kept in pendingRequests  *)
(* until the response line with their id arrives.  client holds the fields *)
(* of the WorkerClient, the promises request() returned, and what the      *)
(* runtime still has in store for them: the write callbacks and the abort  *)
(* listeners that were registered.                                         *)
(***************************************************************************)
\* the number of requests that are made
MaxRequests == 2

RequestIds == 1..MaxRequests

\* what a promise of request() was settled with
Outcome(kind, by) == [kind |-> kind, by |-> by]

\* the state after construction: no process, no pending request, nextRequestId
\* = 1; promise[id] is <<>> while the promise of request id is not settled
InitClient ==
    /\ HandlerIdle /\ SpawnIdle /\ dap = <<>> /\ lastCall = <<>> /\ registration = <<>>
    /\ PlainInputs
    /\ client = [process         |-> "null",
                 started         |-> FALSE,
                 lineReader      |-> FALSE,
                 exitEmitted     |-> FALSE,
                 errorEmitted    |-> FALSE,
                 nextRequestId   |-> 1,
                 pendingRequests |-> {},
                 promise         |-> [id \in RequestIds |-> <<>>],
                 writing         |-> {},
                 abortable       |-> {},
                 warned          |-> FALSE,
                 disposed        |-> FALSE]

\* the requests made so far
Issued == 1..(client.nextRequestId - 1)

\* rejectAllPending(error): every pending promise is rejected and the table
\* is cleared
rejectAllPending(c, by) ==
    [c EXCEPT !.promise = [id \in RequestIds |->
                              IF id \in c.pendingRequests
                              THEN Settle(@[id], Outcome("rejected", by)) ELSE @[id]],
              !.pendingRequests = {}]

\* a cleanup that leaves this.process as it is
cleanup_KeepProcess(c) == [rejectAllPending(c, "exit") EXCEPT !.lineReader = FALSE]

\* cleanup(): the pending requests are rejected, the line reader is closed
\* and this.process is set to null
cleanup(c) == [rejectAllPending(c, "exit") EXCEPT !.lineReader = FALSE, !.process = "null"]

\* start(): the process is spawned and the listeners are registered (the
\* callers start a client once)
Start ==
    /\ client # <<>> /\ client.process = "null" /\ ~client.started
    /\ client' = [client EXCEPT !.process = "set", !.started = TRUE, !.lineReader = TRUE]
    /\ UNCHANGED <<handlerVars, spawnVars, dap, lastCall, registration, inputVars>>

\* request(request, abortSignal) by ping() or discover(), which take the id
\* from generateRequestId: it throws without a process, rejects at once on a
\* signal that is already aborted, and else registers the abort listener (if
\* a signal is given), stores the promise and writes the line
Request ==
    /\ client # <<>> /\ client.nextRequestId <= MaxRequests
    /\ \E id \in {client.nextRequestId} : \E signal \in {"none", "live", "aborted"} :
          \E c \in {[client EXCEPT !.nextRequestId = @ + 1]} :
             client' =
                 IF c.process = "null"
                 THEN [c EXCEPT !.promise[id] = Settle(@, Outcome("rejected", "notStarted"))]
                 ELSE IF signal = "aborted"
                 THEN [c EXCEPT !.promise[id] = Settle(@, Outcome("rejected", "abort"))]
                 ELSE [c EXCEPT !.abortable = IF signal = "live" THEN @ \cup {id} ELSE @,
                                !.pendingRequests = @ \cup {id},
                                !.writing = @ \cup {id}]
    /\ UNCHANGED <<handlerVars, spawnVars, dap, lastCall, registration, inputVars>>

\* the callback of stdin.write is called, with an error or without
WriteDone ==
    /\ client # <<>>
    /\ \E id \in client.writing : \E err \in BOOLEAN :
          client' =
              IF err
              THEN [client EXCEPT !.writing = @ \ {id},
                                  !.pendingRequests = @ \ {id},
                                  !.promise[id] = Settle(@, Outcome("rejected", "write"))]
              ELSE [client EXCEPT !.writing = @ \ {id}]
    /\ UNCHANGED <<handlerVars, spawnVars, dap, lastCall, registration, inputVars>>

\* abortHandler: the signal of a request is aborted after the listener was
\* registered (once)
Abort ==
    /\ client # <<>>
    /\ \E id \in client.abortable :
          client' = [client EXCEPT !.abortable = @ \ {id},
                                   !.pendingRequests = @ \ {id},
                                   !.promise[id] = Settle(@, Outcome("rejected", "abort"))]
    /\ UNCHANGED <<handlerVars, spawnVars, dap, lastCall, registration, inputVars>>

\* handleOutputLine(line) for a response line with an id: a pending request
\* is removed from the table and resolved (success) or rejected; for any
\* other id a warning is logged
HandleOutputLine ==
    /\ client # <<>> /\ client.lineReader
    /\ \E id \in RequestIds : \E success \in BOOLEAN :
          client' =
              IF id \in client.pendingRequests
              THEN [client EXCEPT
                       !.pendingRequests = @ \ {id},
                       !.promise[id] = Settle(@, Outcome(IF success THEN "resolved" ELSE "rejected",
                                                         "response"))]
              ELSE [client EXCEPT !.warned = TRUE]
    /\ UNCHANGED <<handlerVars, spawnVars, dap, lastCall, registration, inputVars>>

\* the 'error' event of the process (it could not be spawned, or not be
\* killed): the pending requests are rejected
ProcessError ==
    /\ client # <<>> /\ client.started /\ ~client.errorEmitted /\ ~client.exitEmitted
    /\ client' = [rejectAllPending(client, "error") EXCEPT !.errorEmitted = TRUE]
    /\ UNCHANGED <<handlerVars, spawnVars, dap, lastCall, registration, inputVars>>

\* the 'exit' event of the process: cleanup()
ProcessExit ==
    /\ client # <<>> /\ client.started /\ ~client.exitEmitted
    /\ client' = [cleanup(client) EXCEPT !.exitEmitted = TRUE]
    /\ UNCHANGED <<handlerVars, spawnVars, dap, lastCall, registration, inputVars>>

\* dispose(): with a process, kill it and cleanup()
Dispose ==
    /\ client # <<>> /\ client.process # "null"
    /\ client' = [cleanup(client) EXCEPT !.disposed = TRUE]
    /\ UNCHANGED <<handlerVars, spawnVars, dap, lastCall, registration, inputVars>>

NextClient ==
    \/ Start \/ Request \/ WriteDone \/ Abort \/ HandleOutputLine
    \/ ProcessError \/ ProcessExit \/ Dispose

SpecClient == InitClient /\ [][NextClient]_vars

(***************************************************************************)
(* Properties.                                                             *)
(***************************************************************************)
\* the tests of group g
GroupTests(g) == Range(Groups[g].tests)

\* the items the run handler marks enqueued for group g
GroupEnqueued(g) == ItemsCalled(EnqueueCalls(Groups[g].tests), "enqueued")

\* every node of the project of group g
GroupItems(g) == {i \in Items : getProjectPath(i) = Groups[g].projectPath}

\* C1: when the run handler has called run.end(), every item that was marked
\* enqueued during the run is in a terminal state (passed, failed, skipped or
\* errored).
C1_EnqueuedEndTerminal ==
    (mode = "run" /\ ended > 0) => \A i \in enqueuedEver : state[i] \in TerminalStates

\* C2: when the debug handler has called run.end(), every item that was marked
\* started is in a terminal state.
C2_StartedEndTerminal ==
    (mode = "debug" /\ ended > 0) => \A i \in startedEver : state[i] \in TerminalStates

\* the number of calls run.<op>(i) in a sequence of calls
CountCalls(calls, op, i) == Cardinality({k \in 1..Len(calls) : calls[k].op = op /\ calls[k].item = i})

\* the items the outcomes of a call of applyTestResults were applied to: the
\* calls for the outcomes come first, one per matched outcome
MatchedItems(a) == {a.out.calls[k].item : k \in 1..a.out.matched}

\* the leaf-runnable items at or below the expected items of a call
ExpectedLeaves(a) ==
    {i \in Items : isLeafRunnableItem(i) /\ \E e \in Range(a.expected) : i \in Subtree(e)}

\* C3: after applyTestResults was called with expected items, every
\* leaf-runnable item at or below an expected item that got no matched outcome
\* was marked skipped exactly once and is left skipped, no other item was
\* skip-filled, and summary.total is the number of matched outcomes plus the
\* number of skip-filled leaves.
C3_SkipFill ==
    \A n \in 1..Len(lastApply) :
        LET a       == lastApply[n]
            missing == ExpectedLeaves(a) \ MatchedItems(a)
            fill    == SubSeq(a.out.calls, a.out.matched + 1, Len(a.out.calls))
        IN  a.hasExpected =>
              /\ \A i \in missing : /\ CountCalls(a.out.calls, "skipped", i) = 1
                                    /\ state[i] = "skipped"
              /\ Range(fill) = {Call("skipped", i, "") : i \in missing}
              /\ a.out.total = a.out.matched + Cardinality(missing)

\* C3 witness: five expected leaves, three outcomes that match three of them,
\* two leaves skip-filled, total 5.
C3_Witness ==
    \E n \in 1..Len(lastApply) :
        LET a == lastApply[n]
        IN  /\ a.hasExpected
            /\ Cardinality(ExpectedLeaves(a)) = 5
            /\ Len(a.results) = 3
            /\ Cardinality(MatchedItems(a)) = 3
            /\ Cardinality(ExpectedLeaves(a) \ MatchedItems(a)) = 2
            /\ a.out.skipped = 2
            /\ a.out.total = 5

C5_FailureIsolated ==
    \A k \in 1..Len(procs) :
        (pc = "done" /\ ~cancelled /\ procs[k].status = "failed") =>
            /\ gi = Len(Groups)
            /\ \A t \in GroupTests(procs[k].group) : state[t] = "errored"

\* C6: run handler: once the result log of a group was found missing or
\* unparseable, every item that was enqueued for the group is errored, with
\* the parser's message when the log could not be parsed.
C6_NoLogMeansErrored ==
    \A g \in 1..gi :
        /\ (mode = "run" /\ Line(g, "Warning: TRX file not found") \in log) =>
              \A i \in GroupEnqueued(g) : state[i] = "errored" /\ msg[i] # ""
        /\ (mode = "run" /\ Line(g, "Error parsing TRX file") \in log) =>
              \A i \in GroupEnqueued(g) : state[i] = "errored" /\ msg[i] = ParserMessage

\* C7: debug handler, hosted runner: once the result log of a group was found
\* missing, the tests of the group are errored (and so not passed).
C7_MissingLogErrored ==
    \A g \in 1..gi :
        (mode = "debug" /\ Line(g, "TRX not found - marking tests as passed") \in log) =>
            \A t \in GroupTests(g) : state[t] = "errored"

\* the readiness wait of group g timed out
TimedOut(g) == \E v3 \in BOOLEAN : Line(g, TimeoutLine(v3)) \in log

\* the runner of group g was killed
RunnerKilled(g) ==
    \E k \in 1..Len(procs) : procs[k].kind \in RunnerKinds /\ procs[k].group = g /\ procs[k].killed

C10_NothingStartsAfterCancel ==
    /\ \A k \in 1..Len(procs) : ~procs[k].afterCancel
    /\ cancelled => \A k \in 1..Len(procs) : procs[k].status = "running" => procs[k].killed

\* C11: when cancellation is requested while the spawned process runs, the
\* step that requests it leaves no process of the tree running, on every
\* platform
C11_ProcessTreeKilled ==
    [][(~requested /\ requested' /\ tree["child"] = "running")
         => \A p \in Pids : tree'[p] # "running"]_vars

\* C12: every setExceptionBreakpoints request of a debug session the handler
\* started reaches the debug adapter with an exceptionOptions list that has
\* the "never break" entry for System.MissingMethodException, whatever the
\* request carried
C12_NeverBreakAdded ==
    dap # <<>> =>
        /\ Len(dap[1].received) = 1
        /\ NeverBreak \in Range(dap[1].received[1])

\* C13: a step stops a debug session only when the request is cancelled, and
\* then only the session of the group being debugged, whose name is the
\* SESSION_NAME of that group; every other active session stays active
C13_OnlyNamedSessionStopped ==
    [][\A k \in 1..Len(sessions) :
          (sessions[k].active /\ sessions'[k].stopped)
             => /\ cancelled'
                /\ k = CurSession
                /\ sessions[k].group = gi
                /\ \E p \in 1..Len(procs) :
                      sessions[k].name = SessionName(isXunitV3, Group.projectPath, p)]_vars

\* a cancelled request whose session was stopped while the user's session
\* stays active
C13_Witness ==
    /\ mode = "debug" /\ cancelled
    /\ sessions[CurSession].group > 0 /\ sessions[CurSession].stopped
    /\ \E k \in 1..Len(sessions) : sessions[k].group = 0 /\ sessions[k].active

\* the value with every "%2C" replaced by a comma
RECURSIVE decodeFilterValue(_)
decodeFilterValue(value) ==
    IF value = <<>> THEN <<>>
    ELSE IF Len(value) >= 3 /\ SubSeq(value, 1, 3) = <<"%", "2", "C">>
    THEN <<",">> \o decodeFilterValue(SubSeq(value, 4, Len(value)))
    ELSE <<Head(value)>> \o decodeFilterValue(Tail(value))

\* the number of commas of a name
Commas(n) == Cardinality({k \in 1..Len(n) : n[k] = ","})

\* C14: the clause built for a leaf with qualified name N is
\* "FullyQualifiedName=" followed by a value that has no comma, that is
\* longer than N by two characters for each comma of N, and that gives N
\* again when every "%2C" in it is replaced by a comma
C14_FilterRoundTrip ==
    (lastCall # <<>> /\ lastCall[1].fn = "buildVSTestFilter" /\ lastCall[1].returned)
       => LET N == lastCall[1].arg
              clause == lastCall[1].result
          IN  /\ Head(clause) = "FullyQualifiedName="
              /\ "," \notin Range(Tail(clause))
              /\ Len(Tail(clause)) = Len(N) + 2 * Commas(N)
              /\ decodeFilterValue(Tail(clause)) = N

\* the clause of a name with two commas and of the name M,M
C14_Witness ==
    /\ lastCall # <<>> /\ lastCall[1].fn = "buildVSTestFilter" /\ lastCall[1].returned
    /\ lastCall[1].arg = <<"M", ",", "M">>
    /\ lastCall[1].result = <<"FullyQualifiedName=", "M", "%", "2", "C", "M">>

\* the processes that run the tests of a group through dotnet test
TestKinds == {"test", "runner"}

\* C15: the filter built for the included items of a group has one clause
\* per item, in the order of the items: an exact clause for an item that is
\* a leaf (a method or a case) and a contains clause for a container (a
\* namespace or a class)
C15_OneClausePerItem ==
    \A k \in 1..Len(procs) :
        (procs[k].kind \in TestKinds /\ ~RunningAll(Groups[procs[k].group].tests))
           => LET tests == Groups[procs[k].group].tests
                  f == procs[k].filter
              IN  /\ Len(f) = Len(tests)
                  /\ \A j \in 1..Len(f) :
                        /\ f[j].item = tests[j]
                        /\ f[j].op = IF NodeKind(tests[j]) \in {"method", "case"}
                                     THEN "=" ELSE "~"

\* C16: the test process of a group is invoked without a filter only when
\* the sole included item of the group is its project node; otherwise it is
\* invoked with a filter that is not empty
C16_UnfilteredOnlyForProject ==
    \A k \in 1..Len(procs) :
        procs[k].kind \in TestKinds
           => IF RunningAll(Groups[procs[k].group].tests)
              THEN ~procs[k].filterArg
              ELSE procs[k].filterArg /\ procs[k].filter # <<>>

\* the lines of a whole stream: what lies between its line breaks, and what
\* follows the last line break when that is not empty
StreamLines(s) ==
    LET ls == split(s)
    IN  IF ls[Len(ls)] = <<>> THEN SubSeq(ls, 1, Len(ls) - 1) ELSE ls

\* the lines of a whole stream that are not empty
NonEmptyLines(s) == SelectSeq(split(s), NonEmpty)

\* C17 as stated: when the process has exited, the lines handed to the
\* callback of a stream are the lines of the whole stream, none lost
C17_AllLinesDelivered ==
    "close" \in events => \A s \in Streams : lines[s] = StreamLines(output[s])

\* C17, amended: however the stream is split into chunks, the lines handed
\* to the callback are, in order, the complete lines of the stream received
\* so far that are not empty, the incomplete line is kept in the buffer, and
\* at process exit it is handed over too unless it is empty; an empty line
\* is never handed over
C17_NonEmptyLinesDelivered ==
    \A s \in Streams :
        LET ls == split(output[s])
        IN  /\ buffer[s] = ls[Len(ls)]
            /\ lines[s] = IF "close" \in events THEN NonEmptyLines(output[s])
                          ELSE SelectSeq(SubSeq(ls, 1, Len(ls) - 1), NonEmpty)

\* a stream with a line break inside a carriage return and line feed pair,
\* and a stream whose last line is flushed at exit
C17_Witness ==
    /\ "close" \in events
    /\ output["stdout"] = <<"a", CR, LF>> /\ lines["stdout"] = << <<"a">> >>
    /\ output["stderr"] = <<"a", LF, "a">> /\ lines["stderr"] = << <<"a">>, <<"a">> >>
    /\ buffer["stderr"] = <<"a">>

\* C18: the promise of spawnProcess is pending until the first event of the
\* child process and never changes once it is settled; it is rejected
\* exactly when the OS could not start the process, and otherwise it is
\* resolved at 'close' with the exit code (-1 without one) and all the text
\* received, whatever the exit code
C18_SettlesOnce ==
    /\ [](/\ (promise = <<>>) <=> (events = {})
          /\ "error" \in events => promise = <<Rejected>>
          /\ ("close" \in events /\ "error" \notin events)
                => /\ promise = <<Resolved(IF code = <<>> THEN -1 ELSE code[1],
                                           output["stdout"], output["stderr"])>>
                   /\ tree["child"] \in {"exited", "killed"}
          /\ (promise # <<>> /\ promise[1].kind = "rejected") => tree["child"] = "failed")
    /\ [][promise # <<>> => promise' = promise]_vars

\* the process printed text and exited with code 1: the promise is resolved
C18_Witness ==
    /\ promise # <<>> /\ promise[1].kind = "resolved"
    /\ promise[1].exitCode = 1 /\ promise[1].stdout = <<"a", LF>>
    /\ tree["child"] = "exited" /\ ~requested

\* a string of one or more decimal digits
AllDigits(s) == s # <<>> /\ \A k \in 1..Len(s) : s[k] \in Range(DigitChars)

\* a duration of the form HH:MM:SS or HH:MM:SS.fffffff
WellFormed(d) ==
    LET parts == splitOn(d, ":")
    IN  /\ Len(parts) = 3
        /\ AllDigits(parts[1]) /\ AllDigits(parts[2])
        /\ LET sp == splitOn(parts[3], ".")
           IN  /\ Len(sp) \in {1, 2}
               /\ \A k \in 1..Len(sp) : AllDigits(sp[k])

\* C19: parseDuration returns (hours*3600 + minutes*60 + seconds)*1000 plus
\* the fraction in milliseconds for a well-formed duration, and 0 for every
\* malformed input: empty, not three fields, or a field that is not numeric
C19_DurationParsed ==
    (lastCall # <<>> /\ lastCall[1].fn = "parseDuration" /\ lastCall[1].returned)
       => LET d == lastCall[1].arg
              r == lastCall[1].result
          IN  IF WellFormed(d)
              THEN LET parts == splitOn(d, ":")
                       sp == splitOn(parts[3], ".")
                   IN  r = Num((Decimal(parts[1]) * 3600 + Decimal(parts[2]) * 60
                                + Decimal(sp[1])) * 1000
                               + (IF Len(sp) = 2 THEN fractionMs(sp[2]).ms ELSE 0))
              ELSE r = Num(0)

\* C20: parseTrxFile returns one result for every entry of the results
\* section, in document order; its outcome is the entry's when that is one
\* of Passed, Failed, NotExecuted and Skipped, and NotExecuted otherwise
C20_OneResultPerEntry ==
    (lastCall # <<>> /\ lastCall[1].fn = "parseTrxFile" /\ lastCall[1].returned)
       => LET entries == lastCall[1].arg.entries
              results == lastCall[1].result
          IN  /\ Len(results) = Len(entries)
              /\ \A k \in 1..Len(entries) :
                    /\ results[k].testId = entries[k].testId
                    /\ results[k].testName = entries[k].testName
                    /\ results[k].outcome \in Outcomes
                    /\ results[k].outcome = IF entries[k].outcome \in Outcomes
                                            THEN entries[k].outcome ELSE "NotExecuted"

\* a log of two entries, the first with an outcome that is none of the four
C20_Witness ==
    /\ lastCall # <<>> /\ lastCall[1].fn = "parseTrxFile" /\ lastCall[1].returned
    /\ Len(lastCall[1].arg.entries) = 2
    /\ lastCall[1].arg.entries[1].outcome = "Inconclusive"
    /\ lastCall[1].arg.entries[2].outcome = "Failed"
    /\ lastCall[1].result[1].outcome = "NotExecuted"
    /\ lastCall[1].result[1].testId = "id2" /\ lastCall[1].result[2].testId = "id1"
    /\ lastCall[1].result[2].outcome = "Failed"

\* the display name holds the truncation marker
Truncated(dn) == \E k \in 1..Len(dn) : dn[k] = TruncMark

\* a truncated display name without its marker and what follows it
StrippedPrefix(dn) == SubSeq(dn, 1, (CHOOSE k \in 1..Len(dn) : dn[k] = TruncMark /\ \A j \in 1..(k - 1) : dn[j] # TruncMark) - 1)

\* the cases of the tree
CaseItems == {i \in Items : HasMetadata(i) /\ MetaKind(i) = "case"}

\* the case leaves of a qualified name whose display name starts with a prefix
CasesStarting(fqn, prefix) ==
    {i \in CaseItems : Fqn(i) = fqn /\ IsPrefix(prefix, DisplayName(i))}

\* the call on the run made for the k-th result of a call of applyTestResults
\* that was looked up as an item
CallOfResult(a, k) == a.out.calls[Cardinality({j \in 1..k : a.out.targets[j] # None})]

\* C21: an outcome whose display name ends in a truncation marker, and whose
\* stripped prefix is the start of the display name of exactly one case leaf
\* of its qualified name, is applied to that leaf: it is not dropped and not
\* applied to another case of the method.
C21_TruncatedToIdentifiedCase ==
    \A n \in 1..Len(lastApply) :
        LET a == lastApply[n]
        IN  \A k \in 1..Len(a.results) :
              LET r == a.results[k]
              IN  Truncated(r.dn) =>
                    \A cases \in {CasesStarting(r.fqn, StrippedPrefix(r.dn))} :
                       Cardinality(cases) = 1 =>
                          \A leaf \in cases :
                             /\ a.out.targets[k] = leaf
                             /\ CallOfResult(a, k) = Call(OutcomeOp(r.outcome), leaf, "")

\* C21 witness: with the cases K1 and K2 of one method in the tree, a
\* truncated outcome whose prefix is the display name of K2 was applied to K2
\* and nothing was applied to K1.
C21_Witness ==
    \E n \in 1..Len(lastApply) :
        LET a == lastApply[n]
        IN  /\ \E k \in 1..Len(a.results) :
                  /\ a.results[k].dn = DisplayName("K2") \o <<TruncMark>>
                  /\ a.out.targets[k] = "K2"
            /\ "K2" \in MatchedItems(a)
            /\ "K1" \notin MatchedItems(a)
            /\ state["K2"] = "failed"

\* the kinds of the processes that run tests: dotnet test of the run handler,
\* the hosted runner and the direct executable of the debug handler
TestRunnerKinds == {"test", "runner", "exe"}

\* a process that has neither exited nor been sent a kill
Alive(p) == p.status = "running" /\ ~p.killed

\* C22: the groups are processed one after another: no two test-runner
\* processes of one handler invocation are alive at once, that is, when the
\* process of a later group has been spawned, the process of every earlier
\* group has exited or been killed.
C22_OneRunnerAtATime ==
    \A p, q \in 1..Len(procs) :
        (/\ p < q
         /\ procs[p].kind \in TestRunnerKinds /\ procs[q].kind \in TestRunnerKinds
         /\ procs[p].group < procs[q].group)
           => ~(Alive(procs[p]) /\ Alive(procs[q]))

\* the build of group g has failed: it closed with a code other than 0 or
\* could not be spawned
BuildFailed(g) ==
    \E b \in 1..Len(procs) :
        /\ procs[b].kind = "build" /\ procs[b].group = g
        /\ procs[b].status = "failed" \/ (procs[b].status = "exited" /\ procs[b].code # 0)

\* C23: in the debug handler a runner process of a group is spawned only
\* after the build of the group has closed, and a group whose build failed
\* has every test marked errored with the build-failed message, no msbuild
\* or runner process and no debug session.
C23_BuildBeforeRunner ==
    mode = "debug" =>
      /\ \A p \in 1..Len(procs) :
            procs[p].kind \in RunnerKinds =>
               \E b \in 1..(p - 1) : /\ procs[b].kind = "build" /\ procs[b].group = procs[p].group
                                     /\ procs[b].status = "exited" /\ procs[b].code = 0
      /\ \A g \in 1..gi :
            BuildFailed(g) =>
               /\ \A t \in GroupTests(g) :
                     state[t] = "errored" /\ msg[t] = "Build failed before debug run"
               /\ \A p \in 1..Len(procs) : procs[p].group = g => procs[p].kind = "build"
               /\ \A k \in 1..Len(sessions) : sessions[k].group # g

\* C23 witness: the build of the first group failed, the handler went on and
\* the second group has a runner and a session.
C23_Witness ==
    /\ mode = "debug" /\ gi = 2
    /\ BuildFailed(1) /\ ~BuildFailed(2)
    /\ \A t \in GroupTests(1) : state[t] = "errored"
    /\ \E p \in 1..Len(procs) : procs[p].kind \in RunnerKinds /\ procs[p].group = 2
    /\ \E k \in 1..Len(sessions) : sessions[k].group = 2

\* group g is debugged with the direct-executable strategy
DirectExecutable(g) == \E p \in 1..Len(procs) : procs[p].kind = "exe" /\ procs[p].group = g

\* the wait on the debug session of group g is over
SessionEnded(g) == Line(g, "Debug session ended.") \in log

\* C24: in the debug handler, once the session of a group debugged with the
\* direct-executable strategy has ended, by termination or by cancellation,
\* every test of the group is marked passed, and the handler neither looks
\* for nor parses a result log for such a group.
C24_DirectExecutablePassed ==
    mode = "debug" =>
      /\ \A g \in 1..gi :
            (DirectExecutable(g) /\ SessionEnded(g)) => \A t \in GroupTests(g) : state[t] = "passed"
      /\ (gi > 0 /\ pc \in {"sleep", "parse"}) => ~DirectExecutable(gi)

\* C24 witness: the request was cancelled while the handler waited on the
\* session of a direct-executable group; the tests of the group are passed.
C24_Witness ==
    /\ mode = "debug" /\ gi = 1 /\ cancelled /\ pc = "done"
    /\ DirectExecutable(1) /\ SessionEnded(1)
    /\ \E k \in 1..Len(sessions) : sessions[k].group = 1 /\ sessions[k].stopped
    /\ \A t \in GroupTests(1) : state[t] = "passed"

\* the case leaves whose qualified name and display name are those of a result
ExactCases(r) == {i \in CaseItems : Fqn(i) = r.fqn /\ DisplayName(i) = r.dn}

\* the items other than cases that carry the qualified name of a result
NamedMethods(r) == {i \in Items \ CaseItems : HasMetadata(i) /\ Fqn(i) = r.fqn}

\* C25: the item an outcome is applied to is (1) a case with its qualified
\* name and display name, if there is one; else (2), for a display name with
\* a truncation marker, a case of its qualified name whose display name
\* starts with the stripped prefix, if there is one; else (3) an item that
\* carries its qualified name, if there is one; else none.  A later step
\* never replaces the hit of an earlier one.
C25_MatchOrder ==
    \A n \in 1..Len(lastApply) :
        LET a == lastApply[n]
        IN  \A k \in 1..Len(a.results) :
              LET r      == a.results[k]
                  target == a.out.targets[k]
                  cut    == IF Truncated(r.dn) THEN CasesStarting(r.fqn, StrippedPrefix(r.dn)) ELSE {}
              IN  IF ExactCases(r) # {} THEN target \in ExactCases(r)
                  ELSE IF cut # {} THEN target \in cut
                  ELSE IF NamedMethods(r) # {} THEN target \in NamedMethods(r)
                  ELSE target = None

\* C25 witness: one log whose three outcomes of the same qualified name were
\* matched by the three steps: a case by its key, a case by a truncated name,
\* and the method itself for a truncated name that starts no case.
C25_Witness ==
    \E n \in 1..Len(lastApply) :
        LET a == lastApply[n]
        IN  /\ Len(a.results) = 3
            /\ a.results[1].dn = DisplayName("K2") /\ a.out.targets[1] = "K2"
            /\ Truncated(a.results[2].dn) /\ a.out.targets[2] = "K1"
            /\ Truncated(a.results[3].dn) /\ a.out.targets[3] = "T1"
            /\ a.out.matched = 3

\* no item of the tree is a match for the result
Unmatched(r) ==
    /\ ExactCases(r) = {}
    /\ Truncated(r.dn) => CasesStarting(r.fqn, StrippedPrefix(r.dn)) = {}
    /\ NamedMethods(r) = {}

\* the loop of applyTestResults after the first k results
AfterResults(results, k) == ApplyLoop(ApplyStart, SubSeq(results, 1, k))

\* C26: an outcome that matches no item adds one warning and nothing else:
\* the calls made on the run, the state of every item and the counters
\* passed, failed, skipped, total and executionTimeMs are as they were before
\* it, and the outcomes after it are processed (every outcome of the log is
\* looked up, and each one that matches is applied).
C26_UnmatchedOnlyWarns ==
    \A n \in 1..Len(lastApply) :
        LET a == lastApply[n]
        IN  /\ \A k \in 1..Len(a.results) :
                  Unmatched(a.results[k]) =>
                     \A before \in {AfterResults(a.results, k - 1)}, after \in {AfterResults(a.results, k)} :
                         /\ after.warnings = before.warnings + 1
                         /\ after.calls = before.calls
                         /\ after.itemStates = before.itemStates
                         /\ after.passed = before.passed /\ after.failed = before.failed
                         /\ after.skipped = before.skipped /\ after.total = before.total
                         /\ after.executionTimeMs = before.executionTimeMs
            /\ Len(a.out.targets) = Len(a.results)
            /\ a.out.warnings = Cardinality({k \in 1..Len(a.results) : a.out.targets[k] = None})
            /\ \A k \in 1..Len(a.results) : Unmatched(a.results[k]) <=> a.out.targets[k] = None
            /\ a.out.matched = Len(a.results) - a.out.warnings
            /\ ~a.hasExpected => a.out.total = a.out.matched

\* C26 witness: a log of three outcomes whose second matches nothing: one
\* warning, the first and the third applied, total 2.
C26_Witness ==
    \E n \in 1..Len(lastApply) :
        LET a == lastApply[n]
        IN  /\ Len(a.results) = 3 /\ ~a.hasExpected
            /\ ~Unmatched(a.results[1]) /\ Unmatched(a.results[2]) /\ ~Unmatched(a.results[3])
            /\ a.out.targets[1] = "M1" /\ a.out.targets[2] = None /\ a.out.targets[3] = "M2"
            /\ a.out.warnings = 1 /\ a.out.total = 2 /\ a.out.passed = 2
            /\ a.out.executionTimeMs = 6
            /\ state["M1"] = "passed" /\ state["M2"] = "passed"

\* the places in the log of a call of applyTestResults of the outcomes that
\* were applied to item i
OutcomesOf(a, i) == {k \in 1..Len(a.results) : a.out.targets[k] = i}

\* C27: after applyTestResults, an item that outcomes of the log were applied
\* to has the state of the last of them in document order, and after the same
\* log was applied to the run a second time every item has the state it had
\* after the first time.
C27_LastOutcomeWins ==
    /\ \A n \in 1..Len(lastApply) :
          LET a == lastApply[n]
          IN  \A i \in Items :
                 OutcomesOf(a, i) # {} =>
                    LET last == CHOOSE k \in OutcomesOf(a, i) : \A j \in OutcomesOf(a, i) : j <= k
                    IN  /\ a.out.itemStates[i] = OutcomeOp(a.results[last].outcome)
                        /\ state[i] = OutcomeOp(a.results[last].outcome)
    /\ Len(lastApply) > 0 => \A i \in Items : state[i] = lastApply[1].out.itemStates[i]

\* C27 witness: a log with a passed and then a failed outcome of M1 was
\* applied twice; M1 is failed.
C27_Witness ==
    /\ Len(lastApply) = 2
    /\ lastApply[2].results = lastApply[1].results
    /\ \E j, k \in OutcomesOf(lastApply[1], "M1") :
          /\ j < k
          /\ lastApply[1].results[j].outcome = "Passed"
          /\ lastApply[1].results[k].outcome = "Failed"
          /\ \A l \in OutcomesOf(lastApply[1], "M1") : l <= k
    /\ state["M1"] = "failed"

\* the fields of a summary
SummaryFields == {"passed", "failed", "skipped", "total", "executionTimeMs"}

\* the run handler has returned from a run that was not cancelled and in
\* which every test process could be spawned
RunCompleted ==
    /\ mode = "run" /\ pc = "done" /\ ~cancelled /\ dirCreated
    /\ \A k \in 1..Len(procs) : procs[k].status # "failed"

RunnersOf(g) == {p \in 1..Len(procs) : procs[p].kind \in RunnerKinds /\ procs[p].group = g}

\* the probe of group g found an executable next to the library
ExeFound(g) == \E m \in 1..Len(procs) : procs[m].kind = "msbuild" /\ procs[m].group = g /\ procs[m].exe

C30_UniqueSessionNames ==
    /\ \A j, k \in 1..Len(sessions) :
          (j < k /\ sessions[j].active /\ sessions[k].active) => sessions[j].name # sessions[k].name
    /\ (mode = "debug" /\ pc = "sessionOver") => ~sessions[CurSession].active
    /\ \A k \in 1..Len(sessions) : sessions[k].stopped => sessions[k].group > 0

\* C31: the case nodes built for two different display names of one method
\* have different ids: the method has one child for each of them.
C31_CaseIdsUnique ==
    \A n \in 1..Len(lastCall) :
        (lastCall[n].fn = "buildTestTree" /\ lastCall[n].returned) =>
            LET cases == lastCall[n].arg
                made  == lastCall[n].result
            IN  /\ cases[1] # cases[2] =>
                      caseId("P1", "N1.C1.T1", cases[1]) # caseId("P1", "N1.C1.T1", cases[2])
                /\ Cardinality({made[k].id : k \in 1..Len(made)}) = Cardinality(Range(cases))

\* C32: under every interleaving of the calls of RegisterMSBuild at most one
\* thread is inside the lock, MSBuildLocator.RegisterDefaults returns at most
\* once, the flag is set only after it returned (so that a failed attempt
\* leaves it unset and the next call tries again), no attempt is made once
\* the flag is set, and a loader has a workspace only after a registration
\* succeeded.
C32_RegisteredOnce ==
    registration # <<>> =>
      /\ registration.succeeded <= 1
      /\ Cardinality({t \in Threads : registration.pc[t] # "out"}) <= 1
      /\ registration.registered => registration.succeeded = 1
      /\ registration.succeeded = 0 => ~registration.registered
      /\ \A t \in Threads : registration.pc[t] = "registering" => ~registration.registered
      /\ \A t \in Threads : registration.workspace[t] => registration.succeeded = 1

\* C32 witness: a first attempt failed, a later call registered, a call after
\* that returned without registering, and both loaders have a workspace.
C32_Witness ==
    /\ registration # <<>>
    /\ registration.failed = 1 /\ registration.succeeded = 1 /\ registration.registered
    /\ \A t \in Threads : registration.calls[t] = 2 /\ registration.pc[t] = "out"
    /\ \A t \in Threads : registration.workspace[t]

\* C33: the result log a handler has found for the group it is at, and is
\* about to parse, was written by the runner of that group.
C33_OwnResultLog ==
    (pc = "parse" /\ trxFile # 0) => files[trxFile].by = gi

\* the runner of a project reports the result: the qualified name is one of a
\* test of the project
ReportedBy(project, r) ==
    \E i \in Items : HasMetadata(i) /\ getProjectPath(i) = project /\ Fqn(i) = r.fqn

\* the call correlates a result log of the group of a project: the expected
\* items are tests of the project and its runner reported every result
CorrelatesGroup(a, project) ==
    /\ a.hasExpected /\ a.expected # <<>>
    /\ \A e \in Range(a.expected) : getProjectPath(e) = project
    /\ \A r \in Range(a.results) : ReportedBy(project, r)

\* the leaves the call marked skipped because no outcome was applied to them
SkipFilled(a) ==
    Range(markMissingExpectedResultsAsSkipped(a.hasExpected, a.expected,
              AfterResults(a.results, Len(a.results)).itemStates))

\* C34: correlating the result log of a group changes the run state of leaves
\* of that group only: every outcome is applied to an item of the project of
\* the group, also when its qualified name exists in the other project as
\* well, no item of the other project gets a state, and a leaf of the group
\* that an outcome of the log names is not skip-filled.
C34_OwnLeavesOnly ==
    \A k \in 1..Len(lastApply) : \A a \in {lastApply[k]} : \A project \in Projects :
        CorrelatesGroup(a, project) =>
            /\ \A j \in 1..Len(a.results) :
                  a.out.targets[j] # None => getProjectPath(a.out.targets[j]) = project
            /\ \A i \in Items : a.out.itemStates[i] # None => getProjectPath(i) = project
            /\ \A i \in SkipFilled(a) : \A r \in Range(a.results) : i \notin NamedMethods(r)

RECURSIVE Below(_)
\* an item and the items below it
Below(i) == {i} \cup UNION {Below(Children(i)[k]) : k \in 1..Len(Children(i))}

\* the items the request excludes, each with the items below it
Excluded == UNION {Below(testsToExclude[k]) : k \in 1..Len(testsToExclude)}

\* C35: an item in the excluded set of the request contributes no clause to
\* the filter (nor an argument to the direct executable) of any process that
\* the handlers spawn, and gets no run state from them: it is not enqueued,
\* not started and left without a terminal state.
C35_ExcludedUntouched ==
    \A i \in Excluded :
        /\ state[i] = None /\ i \notin enqueuedEver /\ i \notin startedEver
        /\ \A k \in 1..Len(procs) : \A c \in Range(procs[k].filter) : c.item # i

\* the readiness wait of a group resolved with the readiness signal: the
\* handler went on to startDebugging
ReadinessSignalled(g) == \E k \in 1..Len(sessions) : sessions[k].group = g

\* the readiness wait of a group resolved as failed
ReadinessFailed(g) ==
    \/ pc = "readyFailed" /\ gi = g
    \/ \E v3 \in BOOLEAN : Line(g, NotReadyLine(v3)) \in log

\* C36: the readiness wait of a group resolves once, with the result of the
\* event that came first: never both with the readiness signal and as failed,
\* and the handler goes on to startDebugging at most once for the group.
\* Events after the readiness signal leave the result as it is; the timer in
\* particular then writes no timeout line and kills nothing, so a runner whose
\* readiness was signalled is killed by cancellation only.
C36_ReadinessResolvesOnce ==
    \A g \in 1..Len(Groups) :
        /\ ~(ReadinessSignalled(g) /\ ReadinessFailed(g))
        /\ Cardinality({k \in 1..Len(sessions) : sessions[k].group = g}) <= 1
        /\ ReadinessSignalled(g) =>
              /\ ~TimedOut(g)
              /\ \A p \in 1..Len(procs) :
                    (procs[p].group = g /\ procs[p].kind \in RunnerKinds /\ procs[p].killed)
                        => cancelled

\* C36 witness: readiness was signalled, the session started, and the process
\* exit arrived after that, at a time when the token is not cancelled
C36_Witness ==
    /\ mode = "debug" /\ pc = "session" /\ ~cancelled
    /\ ReadinessSignalled(gi) /\ ~ReadinessFailed(gi)
    /\ procs[CurProc].kind \in RunnerKinds /\ procs[CurProc].status = "exited"
    /\ ~procs[CurProc].killed

\* the handler waits for the end of the session it started for the g-th group
SessionWait(g) == mode = "debug" /\ pc = "session" /\ gi = g

\* the session the handler waits for has terminated, or cancellation was
\* requested
SessionWaitDue == ~sessions[CurSession].active \/ cancelled

\* C37: when the session the handler started has terminated or cancellation
\* was requested, whether before or after the listeners of the wait were
\* registered, the handler eventually leaves the wait on that session, and
\* when no group is left to debug (the group was the last one, or the request
\* is cancelled) it eventually reaches run.end().
C37_SessionWaitLive ==
    \A g \in 1..Cardinality(Projects) :
        /\ (SessionWait(g) /\ SessionWaitDue) ~> ~SessionWait(g)
        /\ (SessionWait(g) /\ SessionWaitDue /\ (cancelled \/ g = Len(Groups))) ~> (ended > 0)

\* C38: an invocation of the run handler or of the debug handler calls
\* run.end() once: never more than once, and exactly once by the time the
\* handler has returned, whichever way it left (no C# extension, a failure
\* to create the results directory, a spawn error, a rejected startDebugging,
\* cancellation, or the end of the loop); and after run.end() no item is
\* marked enqueued, started, passed, failed, skipped or errored.
C38_EndedOnce ==
    /\ [](ended <= 1)
    /\ []((mode \in {"run", "debug"} /\ pc = "done") => ended = 1)
    /\ [][ended > 0 => UNCHANGED <<state, msg, enqueuedEver, startedEver>>]_vars

\* C38 witness: the handler has returned after it gave some test a terminal
\* state, and the run was ended once
C38_Witness ==
    /\ mode \in {"run", "debug"} /\ pc = "done" /\ ended = 1 /\ dirCreated
    /\ \E i \in Items : state[i] \in TerminalStates

RECURSIVE PositiveDurations(_, _)
\* the sum of the durations above 0 of the results that were looked up as an
\* item
PositiveDurations(results, targets) ==
    IF results = <<>> THEN 0
    ELSE (IF Head(targets) # None /\ Head(results).duration > 0 THEN Head(results).duration ELSE 0)
         + PositiveDurations(Tail(results), Tail(targets))

\* C39: after every call of applyTestResults, whatever the outcomes of the log
\* and the expected items, the summary has total = passed + failed + skipped,
\* no counter below 0, and for executionTimeMs the sum of the durations above
\* 0 of the outcomes that matched an item.
C39_SummaryInvariant ==
    \A k \in 1..Len(lastApply) : \A a \in {lastApply[k]} : \A out \in {a.out} :
        /\ out.total = out.passed + out.failed + out.skipped
        /\ out.passed >= 0 /\ out.failed >= 0 /\ out.skipped >= 0 /\ out.total >= 0
        /\ out.executionTimeMs >= 0
        /\ out.executionTimeMs = PositiveDurations(a.results, out.targets)

\* C39 witness: a call on a log with a passed, a failed and an unmatched
\* outcome, one of the matched durations being below 0, and with expected
\* items that were skip-filled
C39_Witness ==
    /\ mode = "apply" /\ Len(lastApply) = 1
    /\ \E a \in {lastApply[1]} :
          /\ a.out.passed = 1 /\ a.out.failed = 1 /\ a.out.skipped > 0 /\ a.out.warnings = 1
          /\ a.out.total = 2 + a.out.skipped
          /\ \E j \in 1..Len(a.results) : a.out.targets[j] # None /\ a.results[j].duration < 0
          /\ a.out.executionTimeMs = 5

\* the worker process has exited or the client was disposed
WorkerGone == client.exitEmitted \/ client.disposed

\* C40: a promise of request() is settled once: what it was settled with
\* stays, it is resolved by the response with its id only and rejected by
\* that response, an abort, a write failure, a process error or the process
\* exit (or at once, without a process); a promise that is not settled is in
\* the table of pending requests and a settled one is not, so that a response
\* after an abort finds no request and is ignored; after the process exit or
\* dispose() the table is empty, no promise is left unsettled, and a new
\* request is rejected at once.
C40_RequestsSettleOnce ==
    /\ [][(client # <<>> /\ client' # <<>>) =>
            \A id \in RequestIds : client.promise[id] # <<>> => client'.promise[id] = client.promise[id]]_vars
    /\ [](client # <<>> =>
            \A id \in RequestIds :
                /\ id \in client.pendingRequests <=> (id \in Issued /\ client.promise[id] = <<>>)
                /\ client.promise[id] # <<>> =>
                      /\ id \in Issued
                      /\ client.promise[id][1].kind = "resolved" => client.promise[id][1].by = "response"
                      /\ client.promise[id][1].by \in
                             {"response", "abort", "write", "error", "exit", "notStarted"})
    /\ []((client # <<>> /\ WorkerGone) =>
            /\ client.pendingRequests = {}
            /\ \A id \in Issued : client.promise[id] # <<>>)
    /\ [][(client # <<>> /\ client' # <<>> /\ WorkerGone
               /\ client'.nextRequestId = client.nextRequestId + 1) =>
            client'.promise[client.nextRequestId] = <<Outcome("rejected", "notStarted")>>]_vars

\* C40 witness: a request was aborted and the response that came after it
\* was ignored; the process exited, and the request made after that was
\* rejected at once
C40_Witness ==
    /\ client # <<>> /\ client.exitEmitted /\ client.warned
    /\ client.promise[1] = <<Outcome("rejected", "abort")>>
    /\ client.promise[2] = <<Outcome("rejected", "notStarted")>>
    /\ client.pendingRequests = {}

====
